---- MODULE Spec2Model ----
(***************************************************************************)
(* A model of the toml-nodejs decoder: Keystore (keystore.ts), normalizer  *)
(* (normalizer.ts), Parser (parser.ts), Tokenizer (tokenizer.ts) and the   *)
(* calendar value types (types.ts).                                        *)
(*                                                                         *)
(* JavaScript strings are modelled as sequences of one-character strings,  *)
(* so that startsWith, slice, split and join act on text exactly as the    *)
(* code's do: "a.[0].b" is <<"a", ".", "[", "0", "]", ".", "b">>.          *)
(***************************************************************************)
EXTENDS Integers, Sequences, FiniteSets, TLC

(***************************************************************************)
(* String primitives of the JavaScript runtime used by the code.           *)
(***************************************************************************)
StartsWith(s, p) == Len(p) <= Len(s) /\ SubSeq(s, 1, Len(p)) = p

EndsWith(s, p) == Len(p) <= Len(s) /\ SubSeq(s, Len(s) - Len(p) + 1, Len(s)) = p

\* s.slice(n), 0 <= n.
Slice(s, n) == SubSeq(s, n + 1, Len(s))

\* q.includes(x) for an array q.
Includes(q, x) == \E i \in 1..Len(q) : q[i] = x

\* s.includes(c, from) for a one-character c: an occurrence at index >= from.
IncludesChar(s, c, from) == \E i \in (from + 1)..Len(s) : s[i] = c

RECURSIVE Split(_, _)
\* s.split(c) for a one-character separator: "".split(".") is [""].
Split(s, c) ==
  IF \A i \in 1..Len(s) : s[i] # c THEN <<s>>
  ELSE LET i == CHOOSE i \in 1..Len(s) : s[i] = c /\ \A j \in 1..(i - 1) : s[j] # c
       IN  <<SubSeq(s, 1, i - 1)>> \o Split(SubSeq(s, i + 1, Len(s)), c)

RECURSIVE Join(_, _)
\* parts.join(c)
Join(parts, c) ==
  IF Len(parts) = 0 THEN <<>>
  ELSE IF Len(parts) = 1 THEN parts[1]
  ELSE parts[1] \o <<c>> \o Join(Tail(parts), c)

DigitChar(d) == <<"0", "1", "2", "3", "4", "5", "6", "7", "8", "9">>[d + 1]

RECURSIVE NumberToString(_)
\* `${index}` / n.toString(10) for an integer n >= 0.
NumberToString(n) == IF n < 10 THEN <<DigitChar(n)>> ELSE NumberToString(n \div 10) \o <<DigitChar(n % 10)>>

Front(q) == SubSeq(q, 1, Len(q) - 1)

Last(q) == q[Len(q)]

(***************************************************************************)
(* AST nodes (ast.ts).  Every node is a record of the same shape:          *)
(*   type     - the node's tag                                             *)
(*   key      - KEY_VALUE_PAIR, TABLE, ARRAY_TABLE: the key's components   *)
(*   value    - KEY_VALUE_PAIR: <<its value node>>; otherwise <<>>         *)
(*   elements - TABLE, ARRAY_TABLE, INLINE_TABLE, ARRAY: the children      *)
(*   lit      - a scalar leaf's literal value                              *)
(***************************************************************************)
IntegerNode(n) == [type |-> "INTEGER", key |-> <<>>, value |-> <<>>, elements |-> <<>>, lit |-> n]

ArrayNode(es) == [type |-> "ARRAY", key |-> <<>>, value |-> <<>>, elements |-> es, lit |-> 0]

InlineTableNode(es) == [type |-> "INLINE_TABLE", key |-> <<>>, value |-> <<>>, elements |-> es, lit |-> 0]

KeyValuePairNode(k, v) == [type |-> "KEY_VALUE_PAIR", key |-> k, value |-> <<v>>, elements |-> <<>>, lit |-> 0]

TableNode(k) == [type |-> "TABLE", key |-> k, value |-> <<>>, elements |-> <<>>, lit |-> 0]

ArrayTableNode(k) == [type |-> "ARRAY_TABLE", key |-> k, value |-> <<>>, elements |-> <<>>, lit |-> 0]

(***************************************************************************)
(* keystore.ts                                                             *)
(***************************************************************************)
makeKeyComponents(keyNode) == keyNode

makeKey(keyNode) == Join(makeKeyComponents(keyNode), ".")

NotBracket(component) == ~StartsWith(component, <<"[">>)

makeHeaderFromArrayTable(arrayTable) == Join(SelectSeq(Split(arrayTable, "."), NotBracket), ".")

\* new Keystore()
NewKeystore == [keys |-> {}, tables |-> <<>>, implicitTables |-> {}, arrayTables |-> <<>>]

\* The outcome of an addNode call: whether it threw TOMLError, and the ledgers it leaves.
Threw(ks) == [threw |-> TRUE, ks |-> ks]

Returned(ks) == [threw |-> FALSE, ks |-> ks]

RECURSIVE kvpLoop(_, _, _, _)
\* The for loop of addKeyValuePairNode from index i (1-based) with the key built so far.
\* A plausible slip: the last component never looked up among the implicit tables.
kvpLoopImplicitUnchecked(ks, components, i, key) ==
  IF i > Len(components) THEN Returned([ks EXCEPT !.keys = @ \cup {key}])
  ELSE LET k2 == IF i = 1 THEN key \o components[i] ELSE key \o <<".">> \o components[i]
       IN  IF k2 \in ks.keys \/ Includes(ks.tables, k2) THEN Threw(ks)
           ELSE IF Len(components) > 1 /\ i < Len(components)
                THEN kvpLoop([ks EXCEPT !.implicitTables = @ \cup {k2}], components, i + 1, k2)
           ELSE kvpLoop(ks, components, i + 1, k2)

kvpLoop(ks, components, i, key) ==
  IF i > Len(components) THEN Returned([ks EXCEPT !.keys = @ \cup {key}])
  ELSE LET k2 == IF i = 1 THEN key \o components[i] ELSE key \o <<".">> \o components[i]
       IN  IF k2 \in ks.keys \/ Includes(ks.tables, k2) THEN Threw(ks)
           ELSE IF Len(components) > 1 /\ i < Len(components)
                THEN kvpLoop([ks EXCEPT !.implicitTables = @ \cup {k2}], components, i + 1, k2)
           ELSE IF k2 \in ks.implicitTables THEN Threw(ks)
           ELSE kvpLoop(ks, components, i + 1, k2)

addKeyValuePairNode(ks, node) ==
  LET \* `if (table)`: tables[length - 1] is undefined for no table and falsy for "".
      hasTable == Len(ks.tables) > 0 /\ Last(ks.tables) # <<>>
      key == IF hasTable THEN Last(ks.tables) \o <<".">> ELSE <<>>
  IN  kvpLoop(ks, makeKeyComponents(node.key), 1, key)

RECURSIVE tableLoop(_, _, _, _)
\* The for loop of addTableNode: the resolved key, or "threw" when a prefix is a defined key.
tableLoop(ks, components, i, key) ==
  IF i > Len(components) THEN [threw |-> FALSE, key |-> key]
  ELSE LET k2 == IF i = 1 THEN key \o components[i] ELSE key \o <<".">> \o components[i]
       IN  IF k2 \in ks.keys THEN [threw |-> TRUE, key |-> k2]
           ELSE tableLoop(ks, components, i + 1, k2)

NonEmpty(component) == component # <<>>

addTableNode(ks, node) ==
  LET header == Join(makeKeyComponents(node.key), ".")
      found == {i \in 1..Len(ks.arrayTables) :
                  StartsWith(header, makeHeaderFromArrayTable(ks.arrayTables[i]))}
      \* [...arrayTables].reverse().find(...): the latest match.
      arrayTable == ks.arrayTables[CHOOSE i \in found : \A j \in found : j <= i]
      components == IF found = {} THEN makeKeyComponents(node.key)
                    ELSE SelectSeq(Split(Slice(header, Len(makeHeaderFromArrayTable(arrayTable))), "."),
                                   NonEmpty)
      key == IF found = {} THEN <<>> ELSE arrayTable \o <<".">>
      loop == tableLoop(ks, components, 1, key)
  IN  IF found # {} /\ Len(components) = 0 THEN Threw(ks)
      ELSE IF loop.threw THEN Threw(ks)
      ELSE IF \/ Includes(ks.arrayTables, loop.key)
              \/ Includes(ks.tables, loop.key)
              \/ loop.key \in ks.implicitTables THEN Threw(ks)
      ELSE Returned([ks EXCEPT !.tables = Append(@, loop.key)])

RECURSIVE arrayTableLoop(_, _, _, _)
\* The for loop of addArrayTableNode from i down to 1: the key and the index it ends with.
arrayTableLoop(ks, header, i, index) ==
  IF i < 1 THEN [key |-> header, index |-> index]
  ELSE LET arrayTable == ks.arrayTables[i]
           arrayTableHeader == makeHeaderFromArrayTable(arrayTable)
       IN  IF arrayTableHeader = header THEN arrayTableLoop(ks, header, i - 1, index + 1)
           ELSE IF StartsWith(header, arrayTableHeader)
                THEN [key |-> arrayTable \o Slice(header, Len(arrayTableHeader)), index |-> index]
           ELSE arrayTableLoop(ks, header, i - 1, index)

addArrayTableNode(ks, node) ==
  LET header == makeKey(node.key)
      loop == arrayTableLoop(ks, header, Len(ks.arrayTables), 0)
      key == loop.key \o <<".", "[">> \o NumberToString(loop.index) \o <<"]">>
  IN  IF header \in ks.keys THEN Threw(ks)
      ELSE IF Includes(ks.tables, header) \/ header \in ks.implicitTables THEN Threw(ks)
      ELSE IF loop.index = 0 /\ \E t \in 1..Len(ks.tables) : StartsWith(ks.tables[t], header)
           THEN Threw(ks)
      ELSE IF loop.key \in ks.keys \/ Includes(ks.tables, loop.key) THEN Threw(ks)
      ELSE Returned([ks EXCEPT !.arrayTables = Append(@, key), !.tables = Append(@, key)])

addNode(ks, node) ==
  CASE node.type = "KEY_VALUE_PAIR" -> addKeyValuePairNode(ks, node)
    [] node.type = "TABLE" -> addTableNode(ks, node)
    [] node.type = "ARRAY_TABLE" -> addArrayTableNode(ks, node)

(***************************************************************************)
(* normalizer.ts.  A Value is a record of one shape:                       *)
(*   t = "scalar": s is the literal;  t = "map": m is the mapping, a       *)
(*   function from key strings to Values;  t = "arr": a is the sequence;   *)
(*   t = "TOMLError": the computation threw.                               *)
(***************************************************************************)
Scalar(n) == [t |-> "scalar", s |-> n, m |-> <<>>, a |-> <<>>]

Map(f) == [t |-> "map", s |-> 0, m |-> f, a |-> <<>>]

Arr(q) == [t |-> "arr", s |-> 0, m |-> <<>>, a |-> q]

ThrowTOMLError == [t |-> "TOMLError", s |-> 0, m |-> <<>>, a |-> <<>>]

EmptyMap == Map(<<>>)

\* Keys of the alphabet never name an inherited property of Object.prototype.
isKeyValuePair(value) == value.t = "map"

isArray(value) == value.t = "arr"

\* A plausible slip: the incoming elements put before the accumulated ones.
concatReversed(prevValue, nextValue) == Arr(nextValue.a \o prevValue.a)

\* prevValue.concat(nextValue)
concat(prevValue, nextValue) == Arr(prevValue.a \o nextValue.a)

\* A plausible slip: the merged mapping appended as a new element.
appendMerged(prevValue, merged) == Arr(Append(prevValue.a, merged))

\* [...prevValue.slice(0, -1), merged]
replaceLast(prevValue, merged) == Arr(Append(Front(prevValue.a), merged))

RECURSIVE merge2(_, _)
\* One round of merge's reduce: the entries of value folded into acc.
merge2(acc, value) ==
  LET ks == DOMAIN acc.m \cup DOMAIN value.m
      entry(key) ==
        IF key \notin DOMAIN value.m THEN acc.m[key]
        ELSE LET nextValue == value.m[key]
             IN  IF key \notin DOMAIN acc.m THEN nextValue
                 ELSE LET prevValue == acc.m[key]
                      IN  IF isArray(prevValue) /\ isArray(nextValue)
                            THEN concat(prevValue, nextValue)
                          ELSE IF isKeyValuePair(prevValue) /\ isKeyValuePair(nextValue)
                            THEN merge2(prevValue, nextValue)
                          ELSE IF /\ isArray(prevValue)
                                  /\ Len(prevValue.a) > 0
                                  /\ isKeyValuePair(Last(prevValue.a))
                                  /\ isKeyValuePair(nextValue)
                            THEN LET merged == merge2(Last(prevValue.a), nextValue)
                                 IN  IF merged.t = "TOMLError" THEN ThrowTOMLError
                                     ELSE replaceLast(prevValue, merged)
                          ELSE ThrowTOMLError
      f == [key \in ks |-> entry(key)]
  IN  IF \E key \in ks : f[key].t = "TOMLError" THEN ThrowTOMLError ELSE Map(f)

RECURSIVE mergeFrom(_, _)
\* values.reduce(..., acc)
mergeFrom(acc, values) ==
  IF acc.t = "TOMLError" \/ Len(values) = 0 THEN acc
  ELSE IF Head(values).t = "TOMLError" THEN ThrowTOMLError
  ELSE mergeFrom(merge2(acc, Head(values)), Tail(values))

merge(values) == mergeFrom(EmptyMap, values)

RECURSIVE objectify(_, _)
objectify(key, value) ==
  IF value.t = "TOMLError" THEN ThrowTOMLError
  ELSE IF Len(key) = 1 THEN Map([k \in {key[1]} |-> value])
  ELSE Map([k \in {key[1]} |-> objectify(Tail(key), value)])

RECURSIVE normalize(_)
RECURSIVE normalizeAll(_)
\* node.elements.map((element) => normalize(element))
normalizeAll(elements) ==
  IF Len(elements) = 0 THEN <<>> ELSE <<normalize(Head(elements))>> \o normalizeAll(Tail(elements))

normalize(node) ==
  CASE node.type = "ROOT_TABLE" -> merge(normalizeAll(node.elements))
    [] node.type = "KEY_VALUE_PAIR" -> objectify(node.key, normalize(node.value[1]))
    [] node.type = "TABLE" -> objectify(node.key, merge(normalizeAll(node.elements)))
    [] node.type = "ARRAY_TABLE" ->
         LET merged == merge(normalizeAll(node.elements))
         IN  IF merged.t = "TOMLError" THEN ThrowTOMLError
             ELSE objectify(node.key, Arr(<<merged>>))
    [] node.type = "INLINE_TABLE" -> merge(normalizeAll(node.elements))
    [] node.type = "ARRAY" ->
         LET elements == normalizeAll(node.elements)
         IN  IF \E i \in 1..Len(elements) : elements[i].t = "TOMLError" THEN ThrowTOMLError
             ELSE Arr(elements)
    [] node.type = "INTEGER" -> Scalar(node.lit)

(***************************************************************************)
(* utils.ts and tokenizer.ts.  A character is a one-character string; the  *)
(* characters that cannot be written in a string have names: "NUL" U+0000, *)
(* "BS" U+0008, "TAB" U+0009, "LF" U+000A, "FF" U+000C, "CR" U+000D and    *)
(* "DEL" U+007F.  A character decoded from a \u escape is "U+" followed by *)
(* its code point in decimal.                                              *)
(***************************************************************************)
Digits == {"0", "1", "2", "3", "4", "5", "6", "7", "8", "9"}

UpperCase ==
  {"A", "B", "C", "D", "E", "F", "G", "H", "I", "J", "K", "L", "M",
   "N", "O", "P", "Q", "R", "S", "T", "U", "V", "W", "X", "Y", "Z"}

LowerCase ==
  {"a", "b", "c", "d", "e", "f", "g", "h", "i", "j", "k", "l", "m",
   "n", "o", "p", "q", "r", "s", "t", "u", "v", "w", "x", "y", "z"}

\* The characters '\u{0}' <= char < '\u{20}' and '\u{7f}' that have a name here.
ControlCharacters == {"NUL", "BS", "TAB", "LF", "FF", "CR", "DEL"}

isDecimal(char) == char \in Digits

\* 'A' <= char <= 'Z', 'a' <= char <= 'z' or '0' <= char <= '9': every letter passes.
isHexadecimal(char) == char \in UpperCase \cup LowerCase \cup Digits

isOctal(char) == char \in {"0", "1", "2", "3", "4", "5", "6", "7"}

isBinary(char) == char \in {"0", "1"}

\* The digits of parseInt and BigInt, by value: a digit of radix r has a value below r.
DigitsLower ==
  <<"0", "1", "2", "3", "4", "5", "6", "7", "8", "9", "a", "b", "c", "d", "e", "f">>

DigitsUpper ==
  <<"0", "1", "2", "3", "4", "5", "6", "7", "8", "9", "A", "B", "C", "D", "E", "F">>

IsDigitOf(char, radix) == \E d \in 1..radix : char \in {DigitsLower[d], DigitsUpper[d]}

DigitValue(char) == (CHOOSE d \in 1..16 : char \in {DigitsLower[d], DigitsUpper[d]}) - 1

\* The number NaN: the numbers of the model are natural numbers otherwise.
NaN == -1

RECURSIVE parseIntFrom(_, _, _, _, _)
\* parseInt(s, radix) from index i with the digits read so far worth n; a value
\* above cap is kept as cap + 1, which every comparison made with it treats alike.
parseIntFrom(s, radix, i, n, cap) ==
  IF i > Len(s) \/ ~IsDigitOf(s[i], radix) THEN (IF i = 1 THEN NaN ELSE n)
  ELSE LET m == n * radix + DigitValue(s[i])
       IN  parseIntFrom(s, radix, i + 1, IF m > cap THEN cap + 1 ELSE m, cap)

\* The largest number the literals of the model make parseInt return.
MaxParsed == 99999999

parseInt(s, radix) == parseIntFrom(s, radix, 1, 0, MaxParsed)

\* const EOF = -1
EOF == "EOF"

\* `value += char`: the number -1 is appended as the text "-1".
CharToString(char) == IF char = EOF THEN <<"-", "1">> ELSE <<char>>

isBare(char) == char \in UpperCase \cup LowerCase \cup Digits \cup {"-", "_"}

isWhitespace(char) == char \in {" ", "TAB"}

\* The largest code point, 0x10ffff.
MaxCodePoint == 1114111

\* result <= '\u{10ffff}' for result = String.fromCodePoint(n): a comparison of
\* UTF-16 code units with <<0xDBFF, 0xDFFF>>.  A character of the basic plane
\* is one unit, n; any other starts with a unit from 0xD800 to 0xDBFF.
isUnicodeCharacter(n) == n <= 56319 \/ n >= 65536

\* '\u{0}' <= char, char < '\u{20}' and char === '\u{7f}' are all false for the
\* number -1: a string compared with a number is converted to a number, and the
\* conversion of '\u{0}' and of '\u{20}' gives NaN and 0.
isControlCharacter(char) == char \in ControlCharacters

\* A plausible slip: the characters below U+0020 only, U+007F forgotten.
isControlCharacterBelowSpace(char) == isControlCharacter(char) /\ char \notin {"TAB", "DEL"}

isControlCharacterOtherThanTab(char) == isControlCharacter(char) /\ char # "TAB"

PUNCTUATOR_OR_NEWLINE_TOKENS ==
  ("LF" :> "NEWLINE") @@ ("=" :> "EQUALS") @@ ("." :> "PERIOD") @@ ("," :> "COMMA")
    @@ (":" :> "COLON") @@ ("+" :> "PLUS") @@ ("{" :> "LEFT_CURLY_BRACKET")
    @@ ("}" :> "RIGHT_CURLY_BRACKET") @@ ("[" :> "LEFT_SQUARE_BRACKET")
    @@ ("]" :> "RIGHT_SQUARE_BRACKET")

\* `char in PUNCTUATOR_OR_NEWLINE_TOKENS`: the property "-1" is not in it.
isPunctuatorOrNewline(char) == char \in DOMAIN PUNCTUATOR_OR_NEWLINE_TOKENS

ESCAPES ==
  ("b" :> "BS") @@ ("t" :> "TAB") @@ ("n" :> "LF") @@ ("f" :> "FF") @@ ("r" :> "CR")
    @@ ("\"" :> "\"") @@ ("\\" :> "\\")

isEscaped(char) == char \in DOMAIN ESCAPES

\* A token: the value of a token with no value, and isMultiline of any token
\* but a string, are the empty text and FALSE.
Token(type, val) == [type |-> type, value |-> val, isMultiline |-> FALSE]

StringToken(val, multi) == [type |-> "STRING", value |-> val, isMultiline |-> multi]

EOFToken == Token("EOF", <<>>)

\* InputIterator.next from position p: the character and the position after it.
iteratorNext(inp, p) ==
  IF p + 1 = Len(inp) THEN [char |-> EOF, pos |-> p]
  ELSE LET char == inp[p + 2]
       IN  IF char = "CR" /\ p + 2 < Len(inp) /\ inp[p + 3] = "LF"
             THEN [char |-> "LF", pos |-> p + 2]
           ELSE [char |-> char, pos |-> p + 1]

iteratorPeek(inp, p) == iteratorNext(inp, p).char

iteratorTake(inp, p, chars) ==
  LET n == iteratorNext(inp, p)
  IN  IF n.char # EOF /\ n.char \in chars THEN [taken |-> TRUE, pos |-> n.pos]
      ELSE [taken |-> FALSE, pos |-> p]

\* The outcome of a call of the tokenizer: the token returned and the position
\* left, or the kind of the exception thrown.
Returns(tok, p) == [threw |-> "none", token |-> tok, pos |-> p]

Throws(kind, p) == [threw |-> kind, token |-> EOFToken, pos |-> p]

RECURSIVE scanBareLoop(_, _)
\* while (isBare(this.iterator.peek())) this.iterator.next()
scanBareLoop(inp, p) ==
  IF isBare(iteratorPeek(inp, p)) THEN scanBareLoop(inp, iteratorNext(inp, p).pos) ELSE p

scanBare(inp, p, from) ==
  LET q == scanBareLoop(inp, p) IN Returns(Token("BARE", SubSeq(inp, from + 1, q + 1)), q)

RECURSIVE scanWhitespaceLoop(_, _)
scanWhitespaceLoop(inp, p) ==
  IF isWhitespace(iteratorPeek(inp, p)) THEN scanWhitespaceLoop(inp, iteratorNext(inp, p).pos)
  ELSE p

scanWhitespace(inp, p, from) ==
  LET q == scanWhitespaceLoop(inp, p)
  IN  Returns(Token("WHITESPACE", SubSeq(inp, from + 1, q + 1)), q)

(***************************************************************************)
(* Tokenizer.scanString, one round of its for (;;) loop.  The outcome says *)
(* whether the loop continues, breaks (the token is returned) or throws.   *)
(***************************************************************************)
Continue(p, val) == [kind |-> "continue", pos |-> p, value |-> val, error |-> "none"]

Break(p, val) == [kind |-> "break", pos |-> p, value |-> val, error |-> "none"]

Throw(error, p, val) == [kind |-> "throw", pos |-> p, value |-> val, error |-> error]

RECURSIVE readCodePoint(_, _, _, _)
\* The for loop reading the `size` characters of a unicode escape.
readCodePoint(inp, p, size, codePoint) ==
  IF size = 0 THEN [threw |-> FALSE, pos |-> p, codePoint |-> codePoint]
  ELSE LET n == iteratorNext(inp, p)
       IN  IF n.char = EOF \/ ~isHexadecimal(n.char)
             THEN [threw |-> TRUE, pos |-> n.pos, codePoint |-> codePoint]
           ELSE readCodePoint(inp, n.pos, size - 1, Append(codePoint, n.char))

\* String.fromCodePoint(n) throws RangeError unless n is an integer from 0 to 0x10ffff.
fromCodePointThrows(n) == n = NaN \/ n > MaxCodePoint

RECURSIVE takeLineEnding(_, _)
\* while (this.iterator.take(' ', '\t', '\n')) {}
takeLineEnding(inp, p) ==
  LET t == iteratorTake(inp, p, {" ", "TAB", "LF"})
  IN  IF t.taken THEN takeLineEnding(inp, t.pos) ELSE p

\* The escape sequence after a backslash read at position p.
scanEscape(inp, p, multi, val) ==
  LET n == iteratorNext(inp, p)
      char == n.char
  IN  IF isEscaped(char) THEN Continue(n.pos, Append(val, ESCAPES[char]))
      ELSE IF char \in {"u", "U"}
        THEN LET r == readCodePoint(inp, n.pos, IF char = "u" THEN 4 ELSE 8, <<>>)
                 codePoint == parseIntFrom(r.codePoint, 16, 1, 0, MaxCodePoint)
             IN  IF r.threw THEN Throw("TOMLError", r.pos, val)
                 ELSE IF fromCodePointThrows(codePoint) THEN Throw("RangeError", r.pos, val)
                 ELSE IF ~isUnicodeCharacter(codePoint) THEN Throw("TOMLError", r.pos, val)
                 ELSE Continue(r.pos, Append(val, "U+" \o ToString(codePoint)))
      ELSE IF multi /\ (isWhitespace(char) \/ char = "LF")
        THEN Continue(takeLineEnding(inp, n.pos), val)
      ELSE Throw("TOMLError", n.pos, val)

\* A plausible slip: the string closed at the third delimiter, the fourth and
\* the fifth left in the input.
scanClosingAtThree(inp, p, delim, val) ==
  IF ~iteratorTake(inp, p, {delim}).taken THEN Continue(p, Append(val, delim))
  ELSE IF ~iteratorTake(inp, iteratorTake(inp, p, {delim}).pos, {delim}).taken
    THEN Continue(iteratorTake(inp, p, {delim}).pos, val \o <<delim, delim>>)
  ELSE Break(iteratorTake(inp, iteratorTake(inp, p, {delim}).pos, {delim}).pos, val)

\* The closing delimiter of a multi-line string, its first character read at p.
scanClosing(inp, p, delim, val) ==
  LET t1 == iteratorTake(inp, p, {delim})
      t2 == iteratorTake(inp, t1.pos, {delim})
      t3 == iteratorTake(inp, t2.pos, {delim})
      v3 == IF t3.taken THEN Append(val, delim) ELSE val
      t4 == iteratorTake(inp, t3.pos, {delim})
      v4 == IF t4.taken THEN Append(v3, delim) ELSE v3
  IN  IF ~t1.taken THEN Continue(p, Append(val, delim))
      ELSE IF ~t2.taken THEN Continue(t1.pos, val \o <<delim, delim>>)
      ELSE Break(t4.pos, v4)

\* `case undefined` is never taken: InputIterator.next returns a character of
\* the input or EOF, the number -1.
scanStringBody(inp, p, delim, multi, val) ==
  LET n == iteratorNext(inp, p)
      char == n.char
  IN  IF char = "LF"
        THEN (IF ~multi THEN Throw("TOMLError", n.pos, val) ELSE Continue(n.pos, Append(val, char)))
      ELSE IF char = delim
        THEN (IF multi THEN scanClosing(inp, n.pos, delim, val) ELSE Break(n.pos, val))
      ELSE IF isControlCharacterOtherThanTab(char) THEN Throw("TOMLError", n.pos, val)
      ELSE IF delim = "'" THEN Continue(n.pos, val \o CharToString(char))
      ELSE IF char = "\\" THEN scanEscape(inp, n.pos, multi, val)
      ELSE Continue(n.pos, val \o CharToString(char))

\* The statements of scanString before its loop: the opening delimiter.
scanStringOpening(inp, p, delim) ==
  LET t1 == iteratorTake(inp, p, {delim})
      t2 == iteratorTake(inp, t1.pos, {delim})
      multi == t1.taken /\ t2.taken
  IN  [empty |-> t1.taken /\ ~t2.taken, isMultiline |-> multi,
       pos |-> IF ~t1.taken THEN p
               ELSE IF ~t2.taken THEN t1.pos
               ELSE iteratorTake(inp, t2.pos, {"LF"}).pos]

\* The outcome of a call that never returns: the loop it is in leaves the
\* position as it found it, round after round.
NeverReturns(p) == [threw |-> "never returns", token |-> EOFToken, pos |-> p]

RECURSIVE scanCommentLoop(_, _, _)
\* The for (;;) loop of scanComment as a whole: the rounds of the action
\* ScanCommentRound below, one after the other.
scanCommentLoop(inp, p, from) ==
  IF ~isControlCharacterOtherThanTab(iteratorPeek(inp, p))
    THEN IF iteratorNext(inp, p).pos = p THEN NeverReturns(p)
         ELSE scanCommentLoop(inp, iteratorNext(inp, p).pos, from)
  ELSE Returns(Token("COMMENT", SubSeq(inp, from + 1, p + 1)), p)

scanComment(inp, p, from) == scanCommentLoop(inp, p, from)

\* Tokenizer.next from position p, where the character read starts no string
\* (that scan is the action ScanStringRound below).
tokenizerNext(inp, p) ==
  LET n == iteratorNext(inp, p)
      char == n.char
  IN  CASE isPunctuatorOrNewline(char) ->
             Returns(Token(PUNCTUATOR_OR_NEWLINE_TOKENS[char], <<char>>), n.pos)
        [] isBare(char) -> scanBare(inp, n.pos, n.pos)
        [] isWhitespace(char) -> scanWhitespace(inp, n.pos, n.pos)
        [] char = "#" -> scanComment(inp, n.pos, n.pos)
        [] char = EOF -> Returns(EOFToken, n.pos)
        [] /\ ~isPunctuatorOrNewline(char) /\ ~isBare(char) /\ ~isWhitespace(char)
           /\ char \notin {EOF, "#", "'", "\""} -> Throws("TOMLError", n.pos)

\* A plausible slip: peek without its catch, the cursor left where next threw.
tokenizerPeekWithoutCatch(inp, p) ==
  IF tokenizerNext(inp, p).threw # "none" THEN tokenizerNext(inp, p)
  ELSE [tokenizerNext(inp, p) EXCEPT !.pos = p]

\* Tokenizer.peek: the position is restored, whether next returned or threw.
tokenizerPeek(inp, p) == [tokenizerNext(inp, p) EXCEPT !.pos = p]

tokenizerTake(inp, p, types) ==
  LET t == tokenizerPeek(inp, p)
  IN  IF t.threw # "none" THEN [threw |-> t.threw, taken |-> FALSE, pos |-> p]
      ELSE IF t.token.type \in types
        THEN [threw |-> "none", taken |-> TRUE, pos |-> tokenizerNext(inp, p).pos]
      ELSE [threw |-> "none", taken |-> FALSE, pos |-> p]

\* Tokenizer.assert: throws unless a token of one of the types is taken.
tokenizerAssert(inp, p, types) ==
  LET t == tokenizerTake(inp, p, types)
  IN  IF t.threw = "none" /\ ~t.taken THEN [t EXCEPT !.threw = "TOMLError"] ELSE t

tokenizerExpect(inp, p, type) ==
  LET t == tokenizerNext(inp, p)
  IN  IF t.threw = "none" /\ t.token.type # type THEN Throws("TOMLError", t.pos) ELSE t

RECURSIVE tokenizerSequence(_, _, _)
\* Tokenizer.sequence: the tokens expected one after the other, or the first throw.
tokenizerSequence(inp, p, types) ==
  IF Len(types) = 0 THEN [threw |-> "none", tokens |-> <<>>, pos |-> p]
  ELSE LET t == tokenizerExpect(inp, p, Head(types))
       IN  IF t.threw # "none" THEN [threw |-> t.threw, tokens |-> <<>>, pos |-> t.pos]
           ELSE LET r == tokenizerSequence(inp, t.pos, Tail(types))
                IN  [r EXCEPT !.tokens = <<t.token>> \o @]

\* tokens.reduce((prevValue, token) => prevValue + token.value, '')
RECURSIVE TokenValues(_)
TokenValues(tokens) ==
  IF Len(tokens) = 0 THEN <<>> ELSE Head(tokens).value \o TokenValues(Tail(tokens))

(***************************************************************************)
(* BigInt.  A bigint is its sign and its magnitude; a magnitude is four    *)
(* limbs of five decimal digits each, most significant first, so that      *)
(* 9223372036854775807 is <<9223, 37203, 68547, 75807>>.  A magnitude of   *)
(* 10^20 or more has its first limb kept at 10^5: every such magnitude is  *)
(* above 2^64, and the code compares it and does nothing else with it.     *)
(***************************************************************************)
LimbBase == 100000

\* mag * m + d, for m and d below 17.
MulAdd(mag, m, d) ==
  LET v4 == mag[4] * m + d
      v3 == mag[3] * m + (v4 \div LimbBase)
      v2 == mag[2] * m + (v3 \div LimbBase)
      v1 == mag[1] * m + (v2 \div LimbBase)
  IN  <<IF v1 > LimbBase THEN LimbBase ELSE v1, v2 % LimbBase, v3 % LimbBase, v4 % LimbBase>>

RECURSIVE FromDigitsFrom(_, _, _, _)
\* The magnitude after the digits from index i on are read in the radix, mag
\* being the magnitude of the digits before them.
FromDigitsFrom(digits, i, radix, mag) ==
  IF i > Len(digits) \/ mag[1] = LimbBase THEN mag
  ELSE FromDigitsFrom(digits, i + 1, radix, MulAdd(mag, radix, DigitValue(digits[i])))

\* The magnitude the digit characters denote in the radix.
FromDigits(digits, radix) == FromDigitsFrom(digits, 1, radix, <<0, 0, 0, 0>>)

\* -0n is 0n.
BigIntOf(neg, mag) == [neg |-> neg /\ mag # <<0, 0, 0, 0>>, mag |-> mag]

\* x > y for magnitudes.
MagGreater(m1, m2) ==
  \E i \in 1..4 : m1[i] > m2[i] /\ \A j \in 1..(i - 1) : m1[j] = m2[j]

\* x > y for bigints.
BigIntGreater(n1, n2) ==
  IF n1.neg # n2.neg THEN n2.neg
  ELSE IF n1.neg THEN MagGreater(n2.mag, n1.mag)
  ELSE MagGreater(n1.mag, n2.mag)

\* BigInt(string) for a string with no white space: an optional sign and decimal
\* digits, or a radix prefix and digits of the radix; SyntaxError otherwise.
BigInt(prefix, val) ==
  LET radix == CASE prefix = <<>> -> 10 [] prefix = <<"0", "x">> -> 16
                 [] prefix = <<"0", "o">> -> 8 [] prefix = <<"0", "b">> -> 2
      signed == prefix = <<>> /\ Len(val) > 0 /\ val[1] \in {"+", "-"}
      digits == IF signed THEN Tail(val) ELSE val
  IN  IF prefix = <<>> /\ val = <<>> THEN [threw |-> FALSE, int |-> BigIntOf(FALSE, <<0, 0, 0, 0>>)]
      ELSE IF Len(digits) = 0 \/ \E i \in 1..Len(digits) : ~IsDigitOf(digits[i], radix)
        THEN [threw |-> TRUE, int |-> BigIntOf(FALSE, <<0, 0, 0, 0>>)]
      ELSE [threw |-> FALSE, int |-> BigIntOf(signed /\ val[1] = "-", FromDigits(digits, radix))]

(***************************************************************************)
(* parser.ts: the literals.  A node is its type and its value; a call that *)
(* throws yields a node whose type is the kind of the exception.           *)
(***************************************************************************)
Node(type, val) == [type |-> type, value |-> val]

ErrorNode(kind) == [type |-> kind, value |-> <<>>]

DIGIT_CHECKS(radix, char) ==
  CASE radix = 10 -> isDecimal(char)
    [] radix = 16 -> isHexadecimal(char)
    [] radix = 8 -> isOctal(char)
    [] radix = 2 -> isBinary(char)

RADIX_PREFIXES(radix) ==
  CASE radix = 10 -> <<>>
    [] radix = 16 -> <<"0", "x">>
    [] radix = 8 -> <<"0", "o">>
    [] radix = 2 -> <<"0", "b">>

\* A plausible slip: an underscore allowed before the first digit.
underscoreAllowedFromStart == TRUE

\* let isUnderscoreAllowed = false
isUnderscoreAllowedAtStart == FALSE

RECURSIVE parseIntegerLoop(_, _, _, _)
\* The for loop of parseInteger at index i (0-based).
parseIntegerLoop(val, i, radix, isUnderscoreAllowed) ==
  IF i >= Len(val) THEN [threw |-> FALSE, i |-> i, isUnderscoreAllowed |-> isUnderscoreAllowed]
  ELSE IF val[i + 1] = "_"
    THEN (IF ~isUnderscoreAllowed THEN [threw |-> TRUE, i |-> i, isUnderscoreAllowed |-> FALSE]
          ELSE parseIntegerLoop(val, i + 1, radix, FALSE))
  ELSE IF ~DIGIT_CHECKS(radix, val[i + 1])
    THEN [threw |-> FALSE, i |-> i, isUnderscoreAllowed |-> isUnderscoreAllowed]
  ELSE parseIntegerLoop(val, i + 1, radix, TRUE)

\* A plausible slip: the underscores left in the digits.
KeepsUnderscore(char) == TRUE

\* value.slice(0, i).replaceAll('_', ''): the characters kept.
NotUnderscore(char) == char # "_"

parseInteger(val, isSignAllowed, areLeadingZerosAllowed, isUnparsedAllowed, radix) ==
  LET signed == Len(val) > 0 /\ val[1] \in {"+", "-"}
      i0 == IF signed THEN 1 ELSE 0
      loop == parseIntegerLoop(val, i0, radix, isUnderscoreAllowedAtStart)
      int == SelectSeq(SubSeq(val, 1, loop.i), NotUnderscore)
      unparsed == Slice(val, loop.i)
      throws == [threw |-> TRUE, int |-> <<>>, unparsed |-> <<>>]
  IN  IF signed /\ ~isSignAllowed THEN throws
      ELSE IF ~areLeadingZerosAllowed /\ i0 < Len(val) /\ val[i0 + 1] = "0" /\ i0 + 1 # Len(val)
        THEN throws
      ELSE IF loop.threw \/ ~loop.isUnderscoreAllowed THEN throws
      ELSE IF ~isUnparsedAllowed /\ unparsed # <<>> THEN throws
      ELSE [threw |-> FALSE, int |-> int, unparsed |-> unparsed]

\* 2n ** (64n - 1n) - 1n = 9223372036854775807n
MAX_INTEGER == BigIntOf(FALSE, <<9223, 37203, 68547, 75807>>)

parseBigInt(val, radix) ==
  LET r == BigInt(RADIX_PREFIXES(radix), val)
  IN  IF r.threw THEN ErrorNode("TOMLError")
      ELSE IF BigIntGreater(r.int, MAX_INTEGER) THEN ErrorNode("TOMLError")
      ELSE Node("INTEGER", r.int)

\* new Date(value) throws for no string: the Date is kept as the text it is made from.
parseDate(val) == Node("OFFSET_DATE_TIME", [text |-> val])

(***************************************************************************)
(* types.ts: LocalDate, LocalTime, LocalDateTime.                          *)
(***************************************************************************)
AllDigits(s) == \A i \in 1..Len(s) : s[i] \in Digits

isYear(n) == 0 <= n /\ n <= 9999

isMonth(n) == 0 < n /\ n <= 12

isDay(n) == 0 < n /\ n <= 31

isHour(n) == 0 <= n /\ n < 24

isMinute(n) == 0 <= n /\ n < 60

isSecond(n) == 0 <= n /\ n < 60

\* /^\d{4}-\d{2}-\d{2}$/.test(value)
MatchesLocalDate(val) ==
  /\ Len(val) = 10
  /\ \A i \in 1..10 : IF i \in {5, 8} THEN val[i] = "-" ELSE val[i] \in Digits

LocalDateFromString(val) ==
  LET components == Split(val, "-")
      year == parseInt(components[1], 10)
      month == parseInt(components[2], 10)
      day == parseInt(components[3], 10)
  IN  IF ~MatchesLocalDate(val) THEN ErrorNode("TOMLError")
      ELSE IF ~isYear(year) \/ ~isMonth(month) \/ ~isDay(day) THEN ErrorNode("TOMLError")
      ELSE Node("LOCAL_DATE", [year |-> year, month |-> month, day |-> day])

\* /^\d{2}:\d{2}:\d{2}(\.\d+)?$/.test(value)
MatchesLocalTime(val) ==
  /\ Len(val) >= 8
  /\ \A i \in 1..8 : IF i \in {3, 6} THEN val[i] = ":" ELSE val[i] \in Digits
  /\ Len(val) > 8 => /\ val[9] = "."
                     /\ Len(val) >= 10
                     /\ AllDigits(Slice(val, 9))

\* The constructor of LocalTime:
\* this.millisecond = parseInt(millisecond.toString(10).slice(0, 3), 10)
LocalTimeMillisecond(millisecond) ==
  LET s == NumberToString(millisecond)
  IN  parseInt(SubSeq(s, 1, IF Len(s) < 3 THEN Len(s) ELSE 3), 10)

LocalTimeFromString(val) ==
  LET components == Split(val, ":")
      hour == parseInt(components[1], 10)
      minute == parseInt(components[2], 10)
      parts == Split(components[3], ".")
      second == parseInt(parts[1], 10)
      \* parseInt of no component is undefined, and isNaN(undefined) is true.
      millisecond == IF Len(parts) < 2 THEN NaN ELSE parseInt(parts[2], 10)
  IN  IF ~MatchesLocalTime(val) THEN ErrorNode("TOMLError")
      ELSE IF ~isHour(hour) \/ ~isMinute(minute) \/ ~isSecond(second) THEN ErrorNode("TOMLError")
      ELSE Node("LOCAL_TIME",
                [hour |-> hour, minute |-> minute, second |-> second,
                 millisecond |-> LocalTimeMillisecond(IF millisecond = NaN THEN 0 ELSE millisecond)])

RECURSIVE SplitAny(_, _)
\* s.split(/[...]/) for a class of characters.
SplitAny(s, chars) ==
  IF \A i \in 1..Len(s) : s[i] \notin chars THEN <<s>>
  ELSE LET i == CHOOSE i \in 1..Len(s) : s[i] \in chars /\ \A j \in 1..(i - 1) : s[j] \notin chars
       IN  <<SubSeq(s, 1, i - 1)>> \o SplitAny(SubSeq(s, i + 1, Len(s)), chars)

LocalDateTimeFromString(val) ==
  LET components == SplitAny(val, {"t", "T", " "})
      date == LocalDateFromString(components[1])
      localTime == LocalTimeFromString(components[2])
  IN  IF Len(components) # 2 THEN ErrorNode("TOMLError")
      ELSE IF date.type = "TOMLError" \/ localTime.type = "TOMLError" THEN ErrorNode("TOMLError")
      ELSE Node("LOCAL_DATE_TIME",
                [year |-> date.value.year, month |-> date.value.month, day |-> date.value.day,
                 hour |-> localTime.value.hour, minute |-> localTime.value.minute,
                 second |-> localTime.value.second,
                 millisecond |-> localTime.value.millisecond])

(***************************************************************************)
(* parser.ts: Parser.value on a scalar literal.  inp is the input text and *)
(* p the position of the tokenizer.                                        *)
(***************************************************************************)
\* s.includes(sub) for a text sub.
IncludesText(s, sub) == \E i \in 0..(Len(s) - Len(sub)) : SubSeq(s, i + 1, i + Len(sub)) = sub

(***************************************************************************)
(* Each method below is written as the chain of its steps: an operator     *)
(* named after the method takes the outcome of the tokenizer call (or of   *)
(* parseInteger) the step before it made, and either returns or makes the  *)
(* next call.  A `peeked`/`next` pair is Tokenizer.peek() and the          *)
(* Tokenizer.next() the code calls after it, at the same position.         *)
(***************************************************************************)
\* A method of the parser returns the node with the tokenizer left at position p.
ReturnedAt(node, p) == [type |-> node.type, value |-> node.value, pos |-> p]

\* value += ':'; value += token.value; parseDate(value)
negativeOffsetToken(val, t) ==
  IF t.threw # "none" THEN ErrorNode(t.threw)
  ELSE ReturnedAt(parseDate(val \o <<":">> \o t.token.value), t.pos)

\* const token = this.tokenizer.expect('BARE'), the colon asserted.
negativeOffsetAsserted(inp, val, asserted) ==
  IF asserted.threw # "none" THEN ErrorNode(asserted.threw)
  ELSE negativeOffsetToken(val, tokenizerExpect(inp, asserted.pos, "BARE"))

\* `if (....value.includes('-'))`: assert('COLON'), expect('BARE'), parseDate.
negativeOffset(inp, p, val) == negativeOffsetAsserted(inp, val, tokenizerAssert(inp, p, {"COLON"}))

\* value += '+'; value += the tokens; parseDate(value)
positiveOffsetTokens(val, seq) ==
  IF seq.threw # "none" THEN ErrorNode(seq.threw)
  ELSE ReturnedAt(parseDate(val \o <<"+">> \o TokenValues(seq.tokens)), seq.pos)

\* sequence('BARE', 'COLON', 'BARE') after a plus.
positiveOffset(inp, p, val) ==
  positiveOffsetTokens(val, tokenizerSequence(inp, p, <<"BARE", "COLON", "BARE">>))

\* case 'PERIOD': `if (this.tokenizer.take('PLUS'))`, else break.
fractionPlus(inp, val, sign) ==
  IF sign.threw # "none" THEN ErrorNode(sign.threw)
  ELSE IF sign.taken THEN positiveOffset(inp, sign.pos, val)
  ELSE ReturnedAt(LocalDateTimeFromString(val), sign.pos)

\* case 'PERIOD': the token after the period.
fractionToken(inp, val, t) ==
  IF t.threw # "none" THEN ErrorNode(t.threw)
  ELSE IF EndsWith(t.token.value, <<"Z">>)
    THEN ReturnedAt(parseDate(val \o <<".">> \o t.token.value), t.pos)
  ELSE IF IncludesChar(t.token.value, "-", 0)
    THEN negativeOffset(inp, t.pos, val \o <<".">> \o t.token.value)
  ELSE fractionPlus(inp, val \o <<".">> \o t.token.value, tokenizerTake(inp, t.pos, {"PLUS"}))

\* case 'PERIOD' of dateOrDateTime, the period taken.
fractionOfDateTime(inp, p, val) == fractionToken(inp, val, tokenizerExpect(inp, p, "BARE"))

\* A plausible slip: only the upper-case T taken to start a time.
hasUpperTimeDelimiter(val) == IncludesChar(val, "T", 0)

\* value.includes('T') || value.includes('t')
hasTimeDelimiter(val) == IncludesChar(val, "T", 0) \/ IncludesChar(val, "t", 0)

\* switch (this.tokenizer.peek().type)
dateTimeSwitch(inp, val, peeked, next) ==
  IF peeked.threw # "none" THEN ErrorNode(peeked.threw)
  ELSE IF peeked.token.type = "PLUS" THEN positiveOffset(inp, next.pos, val)
  ELSE IF peeked.token.type = "PERIOD" THEN fractionOfDateTime(inp, next.pos, val)
  ELSE ReturnedAt(LocalDateTimeFromString(val), peeked.pos)

\* The tokens of the time read: the offset that ends the last one, or the switch.
dateTimeTokens(inp, val, seq) ==
  IF seq.threw # "none" THEN ErrorNode(seq.threw)
  ELSE IF EndsWith(seq.tokens[4].value, <<"Z">>)
    THEN ReturnedAt(parseDate(val \o TokenValues(seq.tokens)), seq.pos)
  ELSE IF IncludesChar(seq.tokens[4].value, "-", 0)
    THEN negativeOffset(inp, seq.pos, val \o TokenValues(seq.tokens))
  ELSE dateTimeSwitch(inp, val \o TokenValues(seq.tokens),
                      tokenizerPeek(inp, seq.pos), tokenizerNext(inp, seq.pos))

\* dateOrDateTime from `if (!value.includes('T') && !value.includes('t'))` on.
dateTime(inp, p, val) ==
  IF ~hasTimeDelimiter(val) THEN ReturnedAt(LocalDateFromString(val), p)
  ELSE dateTimeTokens(inp, val, tokenizerSequence(inp, p, <<"COLON", "BARE", "COLON", "BARE">>))

\* The space between a date and a time taken: the token after it.
dateAfterSpace(inp, val, peeked, next) ==
  IF peeked.threw # "none" THEN ErrorNode(peeked.threw)
  ELSE IF peeked.token.type # "BARE" THEN ReturnedAt(LocalDateFromString(val), peeked.pos)
  ELSE dateTime(inp, next.pos, val \o <<"T">> \o peeked.token.value)

\* `if (token.type === 'WHITESPACE' && token.value === ' ')`
dateOrDateTimePeeked(inp, p, val, peeked, next) ==
  IF peeked.threw # "none" THEN ErrorNode(peeked.threw)
  ELSE IF peeked.token.type = "WHITESPACE" /\ peeked.token.value = <<" ">>
    THEN dateAfterSpace(inp, val, tokenizerPeek(inp, next.pos), tokenizerNext(inp, next.pos))
  ELSE dateTime(inp, p, val)

dateOrDateTime(inp, p, val) ==
  dateOrDateTimePeeked(inp, p, val, tokenizerPeek(inp, p), tokenizerNext(inp, p))

\* value += '.'; value += token.value; LocalTime.fromString(value)
timeFraction(val, t) ==
  IF t.threw # "none" THEN ErrorNode(t.threw)
  ELSE ReturnedAt(LocalTimeFromString(val \o <<".">> \o t.token.value), t.pos)

\* `if (this.tokenizer.take('PERIOD'))`
timePeriod(inp, val, period) ==
  IF period.threw # "none" THEN ErrorNode(period.threw)
  ELSE IF ~period.taken THEN ReturnedAt(LocalTimeFromString(val), period.pos)
  ELSE timeFraction(val, tokenizerExpect(inp, period.pos, "BARE"))

\* value += the tokens
timeTokens(inp, val, seq) ==
  IF seq.threw # "none" THEN ErrorNode(seq.threw)
  ELSE timePeriod(inp, val \o TokenValues(seq.tokens), tokenizerTake(inp, seq.pos, {"PERIOD"}))

time(inp, p, val) ==
  timeTokens(inp, val, tokenizerSequence(inp, p, <<"COLON", "BARE", "COLON", "BARE">>))

\* return { type: 'INTEGER', value: parseBigInt(int, radix) }
integerParsed(r, radix) ==
  IF r.threw THEN ErrorNode("TOMLError") ELSE parseBigInt(r.int, radix)

integer(val, radix) == integerParsed(parseInteger(val, radix = 10, radix # 10, FALSE, radix), radix)

\* parseFloat(float): the number is kept as the text handed to parseFloat.
FloatNode(val) == Node("FLOAT", [text |-> val])

\* float += the exponent's digits
floatExponentParsed(digits, exponent) ==
  IF exponent.threw THEN ErrorNode("TOMLError") ELSE FloatNode(digits \o exponent.int)

\* float += '+'; float += parseInteger(token.value, false, true, false, 10).int
floatExponentToken(digits, t) ==
  IF t.threw # "none" THEN ErrorNode(t.threw)
  ELSE ReturnedAt(floatExponentParsed(digits \o <<"e", "+">>,
                                    parseInteger(t.token.value, FALSE, TRUE, FALSE, 10)),
                t.pos)

\* `if (unparsed.length === 1)`: the plus asserted.
floatExponentAsserted(inp, digits, asserted) ==
  IF asserted.threw # "none" THEN ErrorNode(asserted.threw)
  ELSE floatExponentToken(digits, tokenizerExpect(inp, asserted.pos, "BARE"))

\* The exponent of float(): `if (unparsed.startsWith('e') || ...)` on.
floatExponent(inp, p, digits, unparsed) ==
  IF StartsWith(unparsed, <<"e">>) \/ StartsWith(unparsed, <<"E">>)
    THEN IF Len(unparsed) = 1
           THEN floatExponentAsserted(inp, digits, tokenizerAssert(inp, p, {"PLUS"}))
         ELSE ReturnedAt(floatExponentParsed(digits \o <<"e">>,
                                           parseInteger(Slice(unparsed, 1), TRUE, TRUE, FALSE, 10)),
                       p)
  ELSE IF unparsed # <<>> THEN ErrorNode("TOMLError")
  ELSE ReturnedAt(FloatNode(digits), p)

\* float += `.${result.int}`; unparsed = result.unparsed
floatFraction(inp, p, digits, result) ==
  IF result.threw THEN ErrorNode("TOMLError")
  ELSE floatExponent(inp, p, digits \o <<".">> \o result.int, result.unparsed)

\* const result = parseInteger(token.value, false, true, true, 10)
floatToken(inp, digits, t) ==
  IF t.threw # "none" THEN ErrorNode(t.threw)
  ELSE floatFraction(inp, t.pos, digits, parseInteger(t.token.value, FALSE, TRUE, TRUE, 10))

\* `if (this.tokenizer.take('PERIOD'))`
floatPeriod(inp, p, first, period) ==
  IF period.threw # "none" THEN ErrorNode(period.threw)
  ELSE IF ~period.taken THEN floatExponent(inp, p, first.int, first.unparsed)
  ELSE IF first.unparsed # <<>> THEN ErrorNode("TOMLError")
  ELSE floatToken(inp, first.int, tokenizerExpect(inp, period.pos, "BARE"))

\* let { int: float, unparsed } = parseInteger(value, true, false, true, 10)
floatParsed(inp, p, first) ==
  IF first.threw THEN ErrorNode("TOMLError")
  ELSE floatPeriod(inp, p, first, tokenizerTake(inp, p, {"PERIOD"}))

float(inp, p, val) == floatParsed(inp, p, parseInteger(val, TRUE, FALSE, TRUE, 10))

\* `... || this.tokenizer.peek().type === 'PERIOD'`
numberPeeked(inp, p, val, peeked) ==
  IF peeked.threw # "none" THEN ErrorNode(peeked.threw)
  ELSE IF peeked.token.type = "PERIOD" THEN float(inp, p, val)
  ELSE ReturnedAt(integer(val, 10), p)

number(inp, p, val) ==
  IF val \in {<<"i", "n", "f">>, <<"+", "i", "n", "f">>} THEN ReturnedAt(FloatNode(<<"Infinity">>), p)
  ELSE IF val = <<"-", "i", "n", "f">> THEN ReturnedAt(FloatNode(<<"-Infinity">>), p)
  ELSE IF val \in {<<"n", "a", "n">>, <<"+", "n", "a", "n">>, <<"-", "n", "a", "n">>}
    THEN ReturnedAt(FloatNode(<<"NaN">>), p)
  ELSE IF StartsWith(val, <<"0", "x">>) THEN ReturnedAt(integer(Slice(val, 2), 16), p)
  ELSE IF StartsWith(val, <<"0", "o">>) THEN ReturnedAt(integer(Slice(val, 2), 8), p)
  ELSE IF StartsWith(val, <<"0", "b">>) THEN ReturnedAt(integer(Slice(val, 2), 2), p)
  ELSE IF IncludesChar(val, "e", 0) \/ IncludesChar(val, "E", 0) THEN float(inp, p, val)
  ELSE numberPeeked(inp, p, val, tokenizerPeek(inp, p))

\* return this.number(`+${token.value}`)
plusToken(inp, t) ==
  IF t.threw # "none" THEN ErrorNode(t.threw) ELSE number(inp, t.pos, <<"+">> \o t.token.value)

plus(inp, p) == plusToken(inp, tokenizerExpect(inp, p, "BARE"))

\* `if (this.tokenizer.peek().type === 'COLON')`
timeOrNumber(inp, p, val, peeked) ==
  IF peeked.threw # "none" THEN ErrorNode(peeked.threw)
  ELSE IF peeked.token.type = "COLON" THEN time(inp, p, val)
  ELSE number(inp, p, val)

booleanOrNumberOrDateOrDateTimeOrTime(inp, p, val) ==
  IF val = <<"t", "r", "u", "e">> THEN ReturnedAt(Node("BOOLEAN", TRUE), p)
  ELSE IF val = <<"f", "a", "l", "s", "e">> THEN ReturnedAt(Node("BOOLEAN", FALSE), p)
  ELSE IF /\ IncludesChar(val, "-", 1)
          /\ ~IncludesText(val, <<"e", "-">>)
          /\ ~IncludesText(val, <<"E", "-">>) THEN dateOrDateTime(inp, p, val)
  ELSE timeOrNumber(inp, p, val, tokenizerPeek(inp, p))

\* switch (token.type): a string, an array and an inline table are not read here.
valueToken(inp, t) ==
  IF t.threw # "none" THEN ErrorNode(t.threw)
  ELSE CASE t.token.type = "BARE" ->
              booleanOrNumberOrDateOrDateTimeOrTime(inp, t.pos, t.token.value)
         [] t.token.type = "PLUS" -> plus(inp, t.pos)
         [] t.token.type \notin {"BARE", "PLUS", "STRING", "LEFT_SQUARE_BRACKET",
                                 "LEFT_CURLY_BRACKET"} -> ErrorNode("TOMLError")

\* Parser.value where the token read is that of a scalar literal.
parserValue(inp, p) == valueToken(inp, tokenizerNext(inp, p))

(***************************************************************************)
(* parser.ts, Parser.parse: the document as the sequence of its top-level  *)
(* constructs ("expressions").  One action per kind of expression; each    *)
(* models one round of the for (;;) loop of parse(): the construct is      *)
(* parsed, handed to the Keystore and appended to the AST.                 *)
(***************************************************************************)
VARIABLES
  lines,          \* the constructs the input document is written with
  doc,            \* the constructs read from the input so far
  keystore,       \* Parser.keystore
  rootTableNode,  \* Parser.rootTableNode.elements
  tableNode,      \* Parser.tableNode: 0 is the root, i the i-th element of the root
  pc,             \* "parse", "merge" (inside normalize), "done", "threw"
  elements,       \* normalize, ROOT_TABLE: the normalized elements
  acc,            \* merge: the accumulator of its reduce
  idx             \* merge: the element the reduce is at

parserVars == <<lines, doc, keystore, rootTableNode, tableNode, pc, elements, acc, idx>>

VARIABLES
  input,          \* Tokenizer.input, InputIterator.input
  pos,            \* InputIterator.pos
  tpc,            \* where the tokenizer is: "ready", "scanComment", "scanString", "eof", "threw"
  start,          \* Tokenizer.next: start
  delimiter,      \* scanString: delimiter
  isMultiline,    \* scanString: isMultiline
  value,          \* scanString: value
  token,          \* the token the last call of Tokenizer.next returned
  thrown,         \* the kind of the exception that escaped, or "none"
  rounds          \* the rounds the running scan loop has made

tokenizerVars == <<input, pos, tpc, start, delimiter, isMultiline, value, token, thrown, rounds>>

VARIABLES
  text,           \* the text of a scalar literal, as written in a document
  following,      \* the text that follows the literal in the document
  vpc,            \* "value" before Parser.value is called, "done" after
  valueNode,      \* the node Parser.value returned, or the error it threw
  valueEnd        \* InputIterator.pos when Parser.value returned, -1 before and when it threw

valueVars == <<text, following, vpc, valueNode, valueEnd>>

VARIABLES
  heap,        \* the objects of the JavaScript heap, by reference
  arguments,   \* the references passed to merge(...values)
  given,       \* the values the arguments held when merge was called
  result,      \* the reference merge returned, 0 before and when it threw
  mpc          \* "idle", "merge", "done", "threw"

mergeVars == <<heap, arguments, given, result, mpc>>

vars == <<parserVars, tokenizerVars, valueVars, mergeVars>>

\* The parser is not running.
ParserIdle ==
  /\ lines = {}
  /\ doc = <<>>
  /\ keystore = <<>>
  /\ rootTableNode = <<>>
  /\ tableNode = 0
  /\ pc = "idle"
  /\ elements = <<>>
  /\ acc = <<>>
  /\ idx = 0

\* No tokenizer is running.
TokenizerIdle ==
  /\ input = <<>>
  /\ pos = -1
  /\ tpc = "idle"
  /\ start = -1
  /\ delimiter = ""
  /\ isMultiline = FALSE
  /\ value = <<>>
  /\ token = <<>>
  /\ thrown = "none"
  /\ rounds = 0

\* No literal is being read.
ValueIdle ==
  /\ text = <<>>
  /\ following = <<>>
  /\ vpc = "idle"
  /\ valueNode = <<>>
  /\ valueEnd = -1

\* No merge is being called.
MergeIdle ==
  /\ heap = <<>>
  /\ arguments = <<>>
  /\ given = <<>>
  /\ result = 0
  /\ mpc = "idle"

a == <<"a">>

b == <<"b">>

c == <<"c">>

x == <<"x">>

\* Bound: the number of top-level constructs of a general document.
MaxDoc == 4

\* Bound: the number of top-level constructs of a deep document.
MaxDeepDoc == 5

\* The scalar values written in documents.
Values == {1, 2}

\* The keys written in key-value pairs and headers of the general documents.
PairKeys == {<<a>>, <<b>>, <<a, b>>, <<b, a>>}

HeaderKeys == {<<a>>, <<b>>, <<a, b>>, <<a, b, c>>}

GeneralLines ==
  {KeyValuePairNode(k, IntegerNode(v)) : k \in PairKeys, v \in Values}
    \cup {TableNode(k) : k \in HeaderKeys}
    \cup {ArrayTableNode(k) : k \in HeaderKeys}

\* Documents with an array of tables nested in an array of tables, a header of
\* four components and a static array of inline tables.
DeepLines ==
  {ArrayTableNode(<<a, b>>), ArrayTableNode(<<a, b, c>>), TableNode(<<a>>),
   TableNode(<<a, b, c, x>>),
   KeyValuePairNode(<<b>>, ArrayNode(<<InlineTableNode(<<>>)>>))}

Pools == {GeneralLines, DeepLines}

\* Bound: the number of top-level constructs of a document with inline tables.
MaxInlineDoc == 2

\* Inline tables of at most two pairs with scalar values: {}, {a = 1},
\* {a = 1, a = 1}, {a.b = 1, a = 1}, ...
FlatInlineTables ==
  {InlineTableNode(<<>>)}
    \cup {InlineTableNode(<<KeyValuePairNode(k1, IntegerNode(1))>>) : k1 \in {<<a>>, <<b>>, <<a, b>>}}
    \cup {InlineTableNode(<<KeyValuePairNode(k1, IntegerNode(1)), KeyValuePairNode(k2, IntegerNode(1))>>) :
            k1 \in {<<a>>, <<b>>, <<a, b>>}, k2 \in {<<a>>, <<b>>, <<a, b>>}}

\* The values nested in an inline table or an array: 1, {a = 1}, {a = 1, a = 1}.
NestedValues ==
  {IntegerNode(1), InlineTableNode(<<KeyValuePairNode(<<a>>, IntegerNode(1))>>),
   InlineTableNode(<<KeyValuePairNode(<<a>>, IntegerNode(1)), KeyValuePairNode(<<a>>, IntegerNode(1))>>)}

\* Inline tables holding inline tables, {a = {a = 1}, b = {a = 1}}, and arrays
\* of sibling inline tables, [{a = 1}, {a = 1}].
NestedInlineTables ==
  {InlineTableNode(<<KeyValuePairNode(<<a>>, v1), KeyValuePairNode(<<b>>, v2)>>) :
     v1 \in NestedValues, v2 \in NestedValues}
    \cup {ArrayNode(<<v1, v2>>) : v1 \in NestedValues, v2 \in NestedValues}

\* Documents whose values are inline tables.
InlineLines ==
  {KeyValuePairNode(k1, v1) :
     k1 \in {<<a>>, <<b>>}, v1 \in {IntegerNode(1)} \cup FlatInlineTables \cup NestedInlineTables}
    \cup {TableNode(<<a>>), TableNode(<<b>>)}

\* Bound: the number of top-level constructs of a document of the Keystore.
MaxKeystoreDoc == 4

\* The quoted keys "ab" and "a.[0]": one component each.
ab == <<"a", "b">>

aDotIndex0 == <<"a", ".", "[", "0", "]">>

\* Documents of dotted keys, tables and arrays of tables over the same names:
\* a = 1, a.b = 1, a.c = 1, b.c = 1, "a.[0]" = 1, [a], [a.b], [ab], [[a]], [[a.b]].
KeystoreLines ==
  {KeyValuePairNode(k, IntegerNode(1)) : k \in {<<a>>, <<a, b>>, <<a, c>>, <<b, c>>, <<aDotIndex0>>}}
    \cup {TableNode(k) : k \in {<<a>>, <<a, b>>, <<ab>>}}
    \cup {ArrayTableNode(k) : k \in {<<a>>, <<a, b>>}}

\* Bound: the number of top-level constructs of a document of headers.
MaxHeaderDoc == 4

\* The quoted key "abc".
abc == <<"a", "b", "c">>

\* Documents of headers whose names share leading characters:
\* [[a]], [[a.b]], [[ab]], [[b]], [ab], [abc], [a.b], a = 1.
HeaderLines ==
  {ArrayTableNode(k) : k \in {<<a>>, <<a, b>>, <<ab>>, <<b>>}}
    \cup {TableNode(k) : k \in {<<ab>>, <<abc>>, <<a, b>>}}
    \cup {KeyValuePairNode(<<a>>, IntegerNode(1))}

\* Bound: the number of top-level constructs of a document of quoted keys.
MaxQuotedDoc == 3

\* The quoted keys "a.b" and "": one component each.
aDotB == <<"a", ".", "b">>

empty == <<>>

\* Documents of quoted and dotted keys that are written alike:
\* "a.b" = 1, a.b = 2, a = 1, a = 2, "" = 1, [""], [a], ["a.b"], [a.b].
QuotedLines ==
  {KeyValuePairNode(<<aDotB>>, IntegerNode(1)), KeyValuePairNode(<<a, b>>, IntegerNode(2)),
   KeyValuePairNode(<<a>>, IntegerNode(1)), KeyValuePairNode(<<a>>, IntegerNode(2)),
   KeyValuePairNode(<<empty>>, IntegerNode(1))}
    \cup {TableNode(k) : k \in {<<empty>>, <<a>>, <<aDotB>>, <<a, b>>}}

\* Bound: the number of top-level constructs of a document of assigned values.
MaxAssignedDoc == 3

\* Documents of values written inline and headers below them:
\* a = 1, a = {}, a = [{}], [a], [a.b], [[a]], [[a.b]].
AssignedLines ==
  {KeyValuePairNode(<<a>>, v) :
     v \in {IntegerNode(1), InlineTableNode(<<>>), ArrayNode(<<InlineTableNode(<<>>)>>)}}
    \cup {TableNode(k) : k \in {<<a>>, <<a, b>>}}
    \cup {ArrayTableNode(k) : k \in {<<a>>, <<a, b>>}}

DocBound(pool) ==
  IF pool = DeepLines THEN MaxDeepDoc
  ELSE IF pool = AssignedLines THEN MaxAssignedDoc
  ELSE IF pool = QuotedLines THEN MaxQuotedDoc
  ELSE IF pool = HeaderLines THEN MaxHeaderDoc
  ELSE IF pool = InlineLines THEN MaxInlineDoc
  ELSE IF pool = KeystoreLines THEN MaxKeystoreDoc
  ELSE MaxDoc

RECURSIVE valueThrows(_)
\* Parser.value on a value: inlineTable() hands each pair to a fresh Keystore.
RECURSIVE inlineTableThrows(_, _, _)
\* A plausible slip: the pairs of an inline table never handed to a Keystore.
inlineTableWithoutKeystore(ks, pairs, i) ==
  \E j \in i..Len(pairs) : valueThrows(pairs[j].value[1])

inlineTableThrows(ks, pairs, i) ==
  IF i > Len(pairs) THEN FALSE
  ELSE IF valueThrows(pairs[i].value[1]) THEN TRUE
  ELSE LET r == addNode(ks, pairs[i])
       IN  IF r.threw THEN TRUE ELSE inlineTableThrows(r.ks, pairs, i + 1)

valueThrows(node) ==
  CASE node.type = "INLINE_TABLE" -> inlineTableThrows(NewKeystore, node.elements, 1)
    [] node.type = "ARRAY" -> \E i \in 1..Len(node.elements) : valueThrows(node.elements[i])
    [] OTHER -> FALSE

ParserInit ==
  /\ lines \in Pools
  /\ doc = <<>>
  /\ keystore = NewKeystore
  /\ rootTableNode = <<>>
  /\ tableNode = 0
  /\ pc = "parse"
  /\ elements = <<>>
  /\ acc = EmptyMap
  /\ idx = 0

\* expression() returned a key-value pair.
ParseKeyValuePair ==
  /\ pc = "parse"
  /\ Len(doc) < DocBound(lines)
  /\ \E node \in lines :
       /\ node.type = "KEY_VALUE_PAIR"
       /\ doc' = Append(doc, node)
       /\ LET r == addNode(keystore, node)
          IN  IF valueThrows(node.value[1])
                THEN pc' = "threw" /\ UNCHANGED <<keystore, rootTableNode>>
              ELSE IF r.threw
                THEN pc' = "threw" /\ keystore' = r.ks /\ UNCHANGED rootTableNode
              ELSE /\ pc' = "parse"
                   /\ keystore' = r.ks
                   /\ rootTableNode' =
                        IF tableNode = 0 THEN Append(rootTableNode, node)
                        ELSE [rootTableNode EXCEPT ![tableNode].elements = Append(@, node)]
  /\ UNCHANGED <<lines, tableNode, elements, acc, idx, tokenizerVars, valueVars, mergeVars>>

\* expression() returned a table header or an array-of-tables header.
ParseTable ==
  /\ pc = "parse"
  /\ Len(doc) < DocBound(lines)
  /\ \E node \in lines :
       /\ node.type \in {"TABLE", "ARRAY_TABLE"}
       /\ doc' = Append(doc, node)
       /\ LET r == addNode(keystore, node)
          IN  IF r.threw
                THEN pc' = "threw" /\ keystore' = r.ks /\ UNCHANGED <<rootTableNode, tableNode>>
              ELSE /\ pc' = "parse"
                   /\ keystore' = r.ks
                   /\ rootTableNode' = Append(rootTableNode, node)
                   /\ tableNode' = Len(rootTableNode) + 1
  /\ UNCHANGED <<lines, elements, acc, idx, tokenizerVars, valueVars, mergeVars>>

\* expression() returned null at end of input: parse() returns and decode calls
\* normalize, which first normalizes every element of the root.
ParseEOF ==
  /\ pc = "parse"
  /\ LET es == normalizeAll(rootTableNode)
     IN  IF \E i \in 1..Len(es) : es[i].t = "TOMLError"
           THEN pc' = "threw" /\ UNCHANGED <<elements, idx>>
         ELSE /\ elements' = es
              /\ idx' = 1
              /\ pc' = IF Len(es) = 0 THEN "done" ELSE "merge"
  /\ UNCHANGED <<lines, doc, keystore, rootTableNode, tableNode, acc, tokenizerVars, valueVars, mergeVars>>

\* One round of the reduce of merge(...elements) at the root.
MergeStep ==
  /\ pc = "merge"
  /\ LET merged == merge2(acc, elements[idx])
     IN  IF merged.t = "TOMLError"
           THEN pc' = "threw" /\ UNCHANGED <<acc, idx>>
         ELSE /\ acc' = merged
              /\ idx' = idx + 1
              /\ pc' = IF idx = Len(elements) THEN "done" ELSE "merge"
  /\ UNCHANGED <<lines, doc, keystore, rootTableNode, tableNode, elements, tokenizerVars, valueVars, mergeVars>>

Init == ParserInit /\ TokenizerIdle /\ ValueIdle /\ MergeIdle

Next == ParseKeyValuePair \/ ParseTable \/ ParseEOF \/ MergeStep

Spec == Init /\ [][Next]_vars

\* new Parser(input) on a document whose values are inline tables.
InlineInit ==
  /\ lines = InlineLines
  /\ doc = <<>>
  /\ keystore = NewKeystore
  /\ rootTableNode = <<>>
  /\ tableNode = 0
  /\ pc = "parse"
  /\ elements = <<>>
  /\ acc = EmptyMap
  /\ idx = 0
  /\ TokenizerIdle
  /\ ValueIdle
  /\ MergeIdle

InlineSpec == InlineInit /\ [][Next]_vars

\* new Parser(input) on a document of the Keystore.
KeystoreInit ==
  /\ lines = KeystoreLines
  /\ doc = <<>>
  /\ keystore = NewKeystore
  /\ rootTableNode = <<>>
  /\ tableNode = 0
  /\ pc = "parse"
  /\ elements = <<>>
  /\ acc = EmptyMap
  /\ idx = 0
  /\ TokenizerIdle
  /\ ValueIdle
  /\ MergeIdle

KeystoreSpec == KeystoreInit /\ [][Next]_vars

\* new Parser(input) on a document of quoted keys.
QuotedInit ==
  /\ lines = QuotedLines
  /\ doc = <<>>
  /\ keystore = NewKeystore
  /\ rootTableNode = <<>>
  /\ tableNode = 0
  /\ pc = "parse"
  /\ elements = <<>>
  /\ acc = EmptyMap
  /\ idx = 0
  /\ TokenizerIdle
  /\ ValueIdle
  /\ MergeIdle

QuotedSpec == QuotedInit /\ [][Next]_vars

\* new Parser(input) on a document of assigned values.
AssignedInit ==
  /\ lines = AssignedLines
  /\ doc = <<>>
  /\ keystore = NewKeystore
  /\ rootTableNode = <<>>
  /\ tableNode = 0
  /\ pc = "parse"
  /\ elements = <<>>
  /\ acc = EmptyMap
  /\ idx = 0
  /\ TokenizerIdle
  /\ ValueIdle
  /\ MergeIdle

AssignedSpec == AssignedInit /\ [][Next]_vars

\* new Parser(input) on a document of headers.
HeaderInit ==
  /\ lines = HeaderLines
  /\ doc = <<>>
  /\ keystore = NewKeystore
  /\ rootTableNode = <<>>
  /\ tableNode = 0
  /\ pc = "parse"
  /\ elements = <<>>
  /\ acc = EmptyMap
  /\ idx = 0
  /\ TokenizerIdle
  /\ ValueIdle
  /\ MergeIdle

HeaderSpec == HeaderInit /\ [][Next]_vars

(***************************************************************************)
(* The document read so far, as the format defines it: the dotted path     *)
(* each construct names.                                                   *)
(***************************************************************************)
IsHeader(node) == node.type \in {"TABLE", "ARRAY_TABLE"}

IsPrefix(p, q) == Len(p) <= Len(q) /\ SubSeq(q, 1, Len(p)) = p

IsProperPrefix(p, q) == Len(p) < Len(q) /\ SubSeq(q, 1, Len(p)) = p

\* The header whose section construct j is written in (0: the root).
SectionOf(d, j) ==
  LET hs == {i \in 1..(j - 1) : IsHeader(d[i])}
  IN  IF hs = {} THEN 0 ELSE CHOOSE i \in hs : \A k \in hs : k <= i

SectionKey(d, j) == IF SectionOf(d, j) = 0 THEN <<>> ELSE d[SectionOf(d, j)].key

\* The dotted path, from the root, that construct j names.
PathOf(d, j) == IF IsHeader(d[j]) THEN d[j].key ELSE SectionKey(d, j) \o d[j].key

\* Path p lies inside an element of an array of tables opened up to construct j,
\* so that p may name a different table in every element.
InsideArray(d, j, p) ==
  \E i \in 1..j : d[i].type = "ARRAY_TABLE" /\ IsProperPrefix(d[i].key, p)

\* Constructs i < j name the same path, other than two array-of-tables headers.
SamePathTwice(d) ==
  \E j \in 1..Len(d) : \E i \in 1..(j - 1) :
    /\ PathOf(d, i) = PathOf(d, j)
    /\ ~(d[i].type = "ARRAY_TABLE" /\ d[j].type = "ARRAY_TABLE")
    /\ ~InsideArray(d, j, PathOf(d, j))

\* A header names a path that a dotted key has passed through (`a.b = 1`, `[a]`).
DottedKeyThenHeader(d) ==
  \E j \in 1..Len(d) : \E i \in 1..(j - 1) :
    /\ d[i].type = "KEY_VALUE_PAIR"
    /\ IsHeader(d[j])
    /\ IsProperPrefix(d[j].key, PathOf(d, i))
    /\ Len(d[j].key) > Len(SectionKey(d, i))
    /\ ~InsideArray(d, j, d[j].key)

\* A key-value pair of a plain table above an array of tables writes through the
\* path of the array (`[[a.b]]`, `[a]`, `b.y = 2`).
WrittenThroughArray(d) ==
  \E j \in 1..Len(d) : \E i \in 1..(j - 1) :
    /\ d[i].type = "ARRAY_TABLE"
    /\ d[j].type = "KEY_VALUE_PAIR"
    /\ IsProperPrefix(SectionKey(d, j), d[i].key)
    /\ IsPrefix(d[i].key, PathOf(d, j))
    /\ ~InsideArray(d, j, d[i].key)

Redefined(d) == SamePathTwice(d) \/ DottedKeyThenHeader(d) \/ WrittenThroughArray(d)

\* C1: a document that defines the same dotted path a second time (by key-value
\* pair, table header or array-of-tables header, other than by repeating an
\* array-of-tables header), or writes through the path of an array of tables with a
\* dotted key, is never decoded to a value: decode raises a structural error.
C1_RedefinitionRaises == pc = "done" => ~Redefined(doc)

(***************************************************************************)
(* The value tree a set of leaves denotes: a leaf is a dotted path and the *)
(* value written for it.                                                   *)
(***************************************************************************)
RECURSIVE LeafTree(_)
LeafTree(leaves) ==
  Map([k \in {l.path[1] : l \in leaves} |->
         LET sub == {l \in leaves : l.path[1] = k}
         IN  IF \E l \in sub : Len(l.path) = 1
               THEN (CHOOSE l \in sub : Len(l.path) = 1).value
             ELSE LeafTree({[path |-> Tail(l.path), value |-> l.value] : l \in sub})])

Headers(d) == {i \in 1..Len(d) : IsHeader(d[i])}

\* The k-th header of the document.
NthHeader(d, k) == CHOOSE i \in Headers(d) : Cardinality({m \in Headers(d) : m <= i}) = k

\* The key-value pairs written between header i and the next header.
PairsOf(d, i) == {j \in 1..Len(d) : ~IsHeader(d[j]) /\ SectionOf(d, j) = i}

LeavesOf(d, i) == {[path |-> d[j].key, value |-> normalize(d[j].value[1])] : j \in PairsOf(d, i)}

\* The pairs of one section name distinct keys, none a dotted prefix of another.
Compatible(d, i) ==
  \A j, k \in PairsOf(d, i) : j # k => ~IsPrefix(d[j].key, d[k].key)

\* The document is n >= 1 occurrences of one array-of-tables header, each
\* followed by its own key-value pairs, and nothing else.
OnlyArrayTable(d) ==
  /\ Len(d) >= 1
  /\ d[1].type = "ARRAY_TABLE"
  /\ \A i \in Headers(d) : d[i].type = "ARRAY_TABLE" /\ d[i].key = d[1].key

ExpectedArrayTable(d) ==
  LET n == Cardinality(Headers(d))
  IN  LeafTree({[path |-> d[1].key,
                 value |-> Arr([i \in 1..n |-> LeafTree(LeavesOf(d, NthHeader(d, i)))])]})

\* C4: a document of n occurrences of the same array-of-tables header [[h]], each
\* followed by its own key-value pairs, decodes (it raises no error when the pairs
\* of each occurrence are compatible) to a sequence of exactly n mappings at path
\* h, in document order, element i holding exactly the pairs written between the
\* i-th header and the next.
C4_ArrayTableAccumulates ==
  OnlyArrayTable(doc) =>
    /\ pc = "done" => acc = ExpectedArrayTable(doc)
    /\ (\A i \in Headers(doc) : Compatible(doc, i)) => pc # "threw"

C4_Witness ==
  /\ pc = "done"
  /\ OnlyArrayTable(doc)
  /\ Cardinality(Headers(doc)) = 2
  /\ \A i \in Headers(doc) : PairsOf(doc, i) # {}
  /\ Len(doc[1].key) = 2

(***************************************************************************)
(* Paths in a value tree.  A header's path is followed the way the format  *)
(* resolves it: through the last element of every sequence on the way.     *)
(***************************************************************************)
Absent == [t |-> "absent", s |-> 0, m |-> <<>>, a |-> <<>>]

\* The mapping a path step looks into: the value itself, or its last element.
Current(v) ==
  IF v.t = "arr" /\ Len(v.a) > 0 /\ Last(v.a).t = "map" THEN Last(v.a) ELSE v

RECURSIVE ValueAt(_, _)
ValueAt(v, path) ==
  IF Len(path) = 0 THEN v
  ELSE IF Current(v).t # "map" \/ path[1] \notin DOMAIN Current(v).m THEN Absent
  ELSE ValueAt(Current(v).m[path[1]], Tail(path))

RECURSIVE PutAt(_, _, _)
\* The tree v with the value at path replaced by new, and nothing else changed.
PutAt(v, path, new) ==
  IF Len(path) = 0 THEN new
  ELSE LET cur == IF v.t = "absent" THEN EmptyMap ELSE Current(v)
           old == IF path[1] \in DOMAIN cur.m THEN cur.m[path[1]] ELSE Absent
           put == Map([k \in DOMAIN cur.m \cup {path[1]} |->
                         IF k = path[1] THEN PutAt(old, Tail(path), new) ELSE cur.m[k]])
       IN  IF v.t = "arr" THEN Arr(Append(Front(v.a), put)) ELSE put

\* The root merge is about to fold in, or has just folded in, element i of the root.
Merging(i) == pc = "merge" /\ idx = i

Merged(i) == pc \in {"merge", "done"} /\ idx = i + 1

\* C5: when the merge reaches a table header [h.sub] that follows a header [[h]] and
\* the value at h is at that point a sequence S ending in a mapping, then after the
\* step the value at h is a sequence of the same length whose earlier elements are
\* those of S; the table's pairs are found under sub in its last element, what that
\* element held before is kept, and the tree is changed nowhere else (no element
\* is appended, no sibling key is created).
C5_TableMergesIntoLastElement ==
  [][\A i \in 1..Len(rootTableNode) : \A n \in 1..(Len(rootTableNode[i].key) - 1) :
       LET node == rootTableNode[i]
           h == SubSeq(node.key, 1, n)
           sub == SubSeq(node.key, n + 1, Len(node.key))
           S == ValueAt(acc, h)
           S2 == ValueAt(acc', h)
           old == ValueAt(acc, node.key)
           new == ValueAt(acc', node.key)
       IN  (/\ Merging(i) /\ Merged(i)'
            /\ node.type = "TABLE"
            /\ \E j \in 1..(i - 1) :
                 rootTableNode[j].type = "ARRAY_TABLE" /\ rootTableNode[j].key = h
            /\ S.t = "arr" /\ Len(S.a) > 0 /\ Last(S.a).t = "map")
           => /\ S2.t = "arr"
              /\ Len(S2.a) = Len(S.a)
              /\ Front(S2.a) = Front(S.a)
              /\ new.t = "map"
              /\ new = ValueAt(Last(S2.a), sub)
              /\ \A k \in 1..Len(node.elements) :
                   ValueAt(new, node.elements[k].key) = normalize(node.elements[k].value[1])
              /\ old.t = "map" => \A k \in DOMAIN old.m : k \in DOMAIN new.m
              /\ acc' = PutAt(acc, node.key, new)
    ]_vars

\* A table header [h.sub] with a pair of its own has been merged into the last of
\* two elements of the sequence at h.
C5_Witness ==
  \E i \in 1..Len(rootTableNode) : \E n \in 1..(Len(rootTableNode[i].key) - 1) :
    LET node == rootTableNode[i]
        h == SubSeq(node.key, 1, n)
    IN  /\ Merged(i)
        /\ node.type = "TABLE"
        /\ Len(node.elements) > 0
        /\ \E j \in 1..(i - 1) : rootTableNode[j].type = "ARRAY_TABLE" /\ rootTableNode[j].key = h
        /\ ValueAt(acc, h).t = "arr"
        /\ Len(ValueAt(acc, h).a) = 2
        /\ ValueAt(acc, node.key).t = "map"

\* A table header [h.x] is read before the first header [[h]], both inside the same
\* element of every enclosing array of tables (no header [[p]] of a proper prefix p
\* of h opens a new element between them).
ChildBeforeArray(d) ==
  \E j \in 1..Len(d) : \E i \in 1..(j - 1) :
    /\ d[i].type = "TABLE"
    /\ d[j].type = "ARRAY_TABLE"
    /\ IsProperPrefix(d[j].key, d[i].key)
    /\ \A k \in 1..(j - 1) : ~(d[k].type = "ARRAY_TABLE" /\ d[k].key = d[j].key)
    /\ \A k \in (i + 1)..(j - 1) :
         ~(d[k].type = "ARRAY_TABLE" /\ IsProperPrefix(d[k].key, d[j].key))

\* C6: a document in which a table header [h.x], a child of path h, is declared
\* before the first header [[h]] is never decoded to a value: the later [[h]] makes
\* decode raise a structural error.
C6_ChildBeforeArrayRaises == pc = "done" => ~ChildBeforeArray(doc)

(***************************************************************************)
(* tokenizer.ts, Tokenizer.next called until it returns the EOF token or   *)
(* throws.  The scans of a comment and of a string are taken one round of  *)
(* their loop at a time.                                                   *)
(***************************************************************************)
\* Bound: the length of an input text of the tokenizer.
MaxInput == 3

\* Bound: the rounds of one scan loop that are followed.
MaxRounds == 12

\* The texts of at most n characters taken from chars.
Texts(chars, n) == UNION {[1..k -> chars] : k \in 0..n}

Repeat(char, n) == [i \in 1..n |-> char]

TokenizerChars == {"#", "a", " ", "LF", "CR", "'", "\"", "\\", "="}

\* A basic string holding one unicode escape.
EscapeInputs ==
  {<<"\"", "\\", "u">> \o h \o <<"\"">> : h \in [1..4 -> {"0", "8", "D", "F", "Z", "f"}]}
    \cup {<<"\"", "\\", "U">> \o h \o <<"\"">> : h \in [1..8 -> {"0", "1", "F"}]}
    \cup {<<"\"", "\\", "u">> \o h \o <<"\"">> : h \in Texts({"0", "F"}, 3)}

\* A multi-line string, closed or not.
MultilineInputs ==
  {Repeat(q, 3) \o body \o Repeat(q, closing) :
     q \in {"'", "\""}, body \in Texts({"a", "LF", "\\", " ", "'"}, 2), closing \in {0, 3, 4}}

\* Bound: the length of a run of delimiters in a multi-line string.
MaxRun == 6

\* A multi-line string holding a run of delimiters, closed after it or not.
RunInputs ==
  {Repeat(q, 3) \o before \o Repeat(q, n) \o after \o Repeat(q, closing) :
     q \in {"'", "\""}, before \in {<<>>, <<"a">>}, n \in 1..MaxRun,
     after \in {<<>>, <<"a">>}, closing \in {0, 3}}

\* The openings of the four string forms and of a comment.
Openings == {<<"'">>, <<"\"">>, Repeat("'", 3), Repeat("\"", 3), <<"#">>}

\* A string or a comment holding a control character, a CR-LF pair or a
\* backslash before one.
ControlInputs ==
  {opening \o before \o ctl \o after :
     opening \in Openings, before \in {<<>>, <<"a">>, <<"\\">>},
     ctl \in {<<char>> : char \in ControlCharacters} \cup {<<"CR", "LF">>},
     after \in {<<>>, <<"a">>, <<"LF">>}}

TokenizerInputs ==
  Texts(TokenizerChars, MaxInput) \cup EscapeInputs \cup MultilineInputs \cup RunInputs
    \cup ControlInputs

TokenizerInit ==
  /\ input \in TokenizerInputs
  /\ pos = -1
  /\ tpc = "ready"
  /\ start = -1
  /\ delimiter = ""
  /\ isMultiline = FALSE
  /\ value = <<>>
  /\ token = <<>>
  /\ thrown = "none"
  /\ rounds = 0

\* A call of Tokenizer.next, up to the loop of scanComment or scanString when
\* the character read starts a comment or a string, and to its end otherwise.
CallNext ==
  /\ tpc = "ready"
  /\ LET n == iteratorNext(input, pos)
         char == n.char
     IN  /\ start' = n.pos
         /\ rounds' = 0
         /\ IF char = "#"
              THEN /\ tpc' = "scanComment"
                   /\ pos' = n.pos
                   /\ UNCHANGED <<delimiter, isMultiline, value, token, thrown>>
            ELSE IF char \in {"'", "\""}
              THEN LET opening == scanStringOpening(input, n.pos, char)
                   IN  /\ pos' = opening.pos
                       /\ delimiter' = char
                       /\ isMultiline' = opening.isMultiline
                       /\ value' = <<>>
                       /\ tpc' = IF opening.empty THEN "ready" ELSE "scanString"
                       /\ token' = IF opening.empty THEN StringToken(<<>>, FALSE) ELSE token
                       /\ UNCHANGED thrown
            ELSE LET r == tokenizerNext(input, pos)
                 IN  /\ pos' = r.pos
                     /\ IF r.threw # "none"
                          THEN tpc' = "threw" /\ thrown' = r.threw /\ UNCHANGED token
                        ELSE /\ token' = r.token
                             /\ tpc' = IF r.token.type = "EOF" THEN "eof" ELSE "ready"
                             /\ UNCHANGED thrown
                     /\ UNCHANGED <<delimiter, isMultiline, value>>
  /\ UNCHANGED <<input, parserVars, valueVars, mergeVars>>

\* One round of the for (;;) loop of scanComment.
ScanCommentRound ==
  /\ tpc = "scanComment"
  /\ rounds < MaxRounds
  /\ rounds' = rounds + 1
  /\ IF ~isControlCharacterOtherThanTab(iteratorPeek(input, pos))
       THEN /\ pos' = iteratorNext(input, pos).pos
            /\ UNCHANGED <<tpc, token>>
     ELSE /\ token' = Token("COMMENT", SubSeq(input, start + 1, pos + 1))
          /\ tpc' = "ready"
          /\ UNCHANGED pos
  /\ UNCHANGED <<input, start, delimiter, isMultiline, value, thrown, parserVars, valueVars, mergeVars>>

\* One round of the for (;;) loop of scanString.
ScanStringRound ==
  /\ tpc = "scanString"
  /\ rounds < MaxRounds
  /\ rounds' = rounds + 1
  /\ LET r == scanStringBody(input, pos, delimiter, isMultiline, value)
     IN  /\ pos' = r.pos
         /\ value' = r.value
         /\ tpc' = CASE r.kind = "continue" -> "scanString"
                     [] r.kind = "break" -> "ready"
                     [] r.kind = "throw" -> "threw"
         /\ token' = IF r.kind = "break" THEN StringToken(r.value, isMultiline) ELSE token
         /\ thrown' = r.error
  /\ UNCHANGED <<input, start, delimiter, isMultiline, parserVars, valueVars, mergeVars>>

TokenizerNext == CallNext \/ ScanCommentRound \/ ScanStringRound

\* new Tokenizer(input), and nothing else constructed.
TokenizerSpecInit == TokenizerInit /\ ParserIdle /\ ValueIdle /\ MergeIdle

TokenizerSpec == TokenizerSpecInit /\ [][TokenizerNext]_vars

\* C2: every call of Tokenizer.next returns a token or throws after finitely
\* many cursor steps, also when the input ends inside a comment or a string:
\* a round of a scan loop that does not end the scan moves the cursor forward
\* in the finite input.
C2_ScanRoundAdvances ==
  [][(tpc \in {"scanComment", "scanString"} /\ tpc' = tpc) => pos' > pos]_vars

\* C3: every abnormal outcome is the one structural error kind, TOMLError: no
\* exception of another kind escapes.
C3_OnlyTOMLError == tpc = "threw" => thrown = "TOMLError"

(***************************************************************************)
(* parser.ts, Parser.value called where the text of a scalar literal is    *)
(* written.                                                                *)
(***************************************************************************)
\* Bound: the length of the short literals, which are read exhaustively.
MaxLiteral == 4

LiteralChars == {"0", "1", "9", "F", "_", "x", "b", "-"}

ShortLiterals == Texts(LiteralChars, MaxLiteral)

DigitsText(digits) == [i \in 1..Len(digits) |-> DigitChar(digits[i])]

\* The magnitudes 2^63 - 1, 2^63 and 2^63 + 1, and the literals at the two
\* ends of the signed 64-bit range, in each radix.
TwoTo63Less1 == <<9, 2, 2, 3, 3, 7, 2, 0, 3, 6, 8, 5, 4, 7, 7, 5, 8, 0, 7>>

TwoTo63 == <<9, 2, 2, 3, 3, 7, 2, 0, 3, 6, 8, 5, 4, 7, 7, 5, 8, 0, 8>>

TwoTo63Plus1 == <<9, 2, 2, 3, 3, 7, 2, 0, 3, 6, 8, 5, 4, 7, 7, 5, 8, 0, 9>>

BoundaryLiterals ==
  {sign \o DigitsText(mag) :
     sign \in {<<>>, <<"+">>, <<"-">>}, mag \in {TwoTo63Less1, TwoTo63, TwoTo63Plus1}}
    \cup {<<"0", "x", "7">> \o Repeat("F", 15), <<"0", "x", "7">> \o Repeat("f", 15),
          <<"0", "x", "8">> \o Repeat("0", 15), <<"0", "x">> \o Repeat("F", 16),
          <<"0", "o">> \o Repeat("7", 21), <<"0", "o", "1">> \o Repeat("0", 21),
          <<"0", "b">> \o Repeat("1", 63), <<"0", "b", "1">> \o Repeat("0", 63)}

UnderscoreLiterals ==
  {<<"0", "x", "_", "F", "F">>, <<"0", "x", "F", "_", "F">>, <<"0", "o", "_", "7">>,
   <<"0", "o", "7", "_", "7">>, <<"0", "b", "1", "0", "1", "0", "_", "1", "0", "1", "0">>,
   <<"0", "b", "_", "1", "0", "1", "0", "1", "0", "1", "0">>, <<"1", "_", "0", "0", "0">>,
   <<"0", "x", "F", "_", "G">>, <<"0", "o", "7", "_", "8">>, <<"0", "b", "1", "_", "2">>,
   <<"0", "x", "F", "_", "_", "F">>, <<"0", "x", "F", "F", "_">>}

Dates ==
  {<<"1", "9", "7", "9", "-">> \o month \o <<"-">> \o day :
     month \in {<<"0", "5">>, <<"1", "3">>}, day \in {<<"2", "7">>, <<"0", "0">>}}

Times ==
  {hour \o <<":", "3", "2", ":">> \o second :
     hour \in {<<"0", "7">>, <<"2", "4">>}, second \in {<<"0", "0">>, <<"6", "0">>}}

Fractions ==
  {<<>>, <<".", "5">>, <<".", "0", "5">>, <<".", "1", "2", "3">>,
   <<".", "0", "0", "1", "9", "9", "9">>, <<".", "9", "9", "9", "9", "9", "9">>}

Offsets ==
  {<<>>, <<"Z">>, <<"+", "0", "7", ":", "0", "0">>, <<"-", "0", "7", ":", "0", "0">>}

DateTimeLiterals ==
  Dates
    \cup {t \o f : t \in Times, f \in Fractions}
    \cup {d \o sep \o t \o f \o o :
            d \in Dates, sep \in {<<"T">>, <<"t">>, <<" ">>}, t \in Times, f \in Fractions,
            o \in Offsets}

\* Bound: the length of the texts over the characters of a float, which are
\* read exhaustively.
MaxFloat == 5

FloatChars == {"0", "1", ".", "e", "-", "_"}

FloatTexts == Texts(FloatChars, MaxFloat)

\* A sign, an integer part, a fraction and an exponent, well formed or not.
FloatParts ==
  {sign \o int \o fraction \o exponent :
     sign \in {<<>>, <<"+">>, <<"-">>},
     int \in {<<"0">>, <<"1">>, <<"0", "1">>, <<"1", "_", "0">>, <<"_", "1">>, <<"1", "_">>},
     fraction \in {<<>>, <<".">>, <<".", "5">>, <<".", "5", "_">>, <<".", "_", "5">>,
                   <<".", "0", "_", "5">>},
     exponent \in {<<>>, <<"e">>, <<"e", "5">>, <<"E", "5">>, <<"e", "+", "5">>,
                   <<"e", "-", "5">>, <<"E", "-", "3">>, <<"e", "+">>, <<"e", "_", "5">>,
                   <<"e", "5", "_">>, <<"e", "0", "_", "5">>, <<"e", "+", "_", "5">>,
                   <<"e", "+", "0", "5">>, <<"e", "5", ".", "3">>, <<"e", "+", "5", "+", "3">>}}

\* Floats of the decimal form, and texts that miss it.
FloatsOfForm ==
  {<<"0", "e", "0">>, <<"0", ".", "5">>, <<"-", "0", "e", "5">>, <<"1", "e", "+", "3">>,
   <<"1", ".", "5", "E", "-", "3">>}

FloatsOffForm ==
  {<<"1", ".">>, <<".", "5">>, <<"1", ".", "e", "5">>, <<"0", "1", ".", "5">>,
   <<"1", "e", "5", ".", "3">>}

FloatLiterals == FloatTexts \cup FloatParts \cup FloatsOfForm \cup FloatsOffForm

Literals ==
  ShortLiterals \cup BoundaryLiterals \cup UnderscoreLiterals \cup DateTimeLiterals
    \cup FloatLiterals

\* What follows a literal: the end of the input, the end of the line, with
\* white space before it or not, or the comma of an array.
Followings == {<<>>, <<"LF">>, <<" ", "LF">>, <<",">>}

ValueInit ==
  /\ text \in Literals
  /\ following \in Followings
  /\ vpc = "value"
  /\ valueNode = <<>>
  /\ valueEnd = -1

\* The node of an outcome of Parser.value, and the position it left the tokenizer at.
NodeReturned(r) == [type |-> r.type, value |-> r.value]

PositionReturned(r) == IF "pos" \in DOMAIN r THEN r.pos ELSE -1

\* Parser.value()
ParseValue ==
  /\ vpc = "value"
  /\ valueNode' = NodeReturned(parserValue(text \o following, -1))
  /\ valueEnd' = PositionReturned(parserValue(text \o following, -1))
  /\ vpc' = "done"
  /\ UNCHANGED <<text, following, parserVars, tokenizerVars, mergeVars>>

ValueNext == ParseValue

\* A parser on the literal, and nothing else running.
ValueSpecInit == ValueInit /\ ParserIdle /\ TokenizerIdle /\ MergeIdle

ValueSpec == ValueSpecInit /\ [][ValueNext]_vars

(***************************************************************************)
(* The calls of the Tokenizer, one after the other on one input.           *)
(***************************************************************************)
\* Bound: the calls made on one tokenizer.
MaxCalls == 3

CursorChars == {"a", " ", "#", "LF", "CR", "=", "BS"}

\* The lists of kinds passed to Tokenizer.take.
KindLists ==
  {{"WHITESPACE"}, {"COMMENT"}, {"NEWLINE", "EOF"}, {"BARE", "STRING"}, {"EQUALS"}}

\* new Tokenizer(input)
CursorInit ==
  /\ input \in Texts(CursorChars, MaxInput)
  /\ pos = -1
  /\ tpc = "ready"
  /\ start = -1
  /\ delimiter = ""
  /\ isMultiline = FALSE
  /\ value = <<>>
  /\ token = <<>>
  /\ thrown = "none"
  /\ rounds = 0
  /\ ParserIdle
  /\ ValueIdle
  /\ MergeIdle

\* The call made is over: tpc names the call and how it ended ("scanning"
\* when it never returns), thrown is what it threw.
CallEnds(r, returned, threw) ==
  /\ pos' = r.pos
  /\ tpc' = CASE r.threw = "none" -> returned
              [] r.threw = "never returns" -> "scanning"
              [] r.threw \notin {"none", "never returns"} -> threw
  /\ thrown' = IF r.threw = "never returns" THEN "none" ELSE r.threw
  /\ rounds' = rounds + 1
  /\ UNCHANGED <<input, delimiter, isMultiline, value, parserVars, valueVars, mergeVars>>

\* Tokenizer.peek().  start is the position before the first peek of a run.
CursorPeek ==
  /\ tpc # "scanning"
  /\ rounds < MaxCalls
  /\ CallEnds(tokenizerPeek(input, pos), "peek returned", "peek threw")
  /\ token' = tokenizerPeek(input, pos).token
  /\ UNCHANGED start

\* Tokenizer.take(...types)
CursorTake ==
  /\ tpc # "scanning"
  /\ rounds < MaxCalls
  /\ \E types \in KindLists :
       /\ CallEnds(tokenizerTake(input, pos, types),
                   IF tokenizerTake(input, pos, types).taken THEN "take true" ELSE "take false",
                   "take threw")
       /\ start' = tokenizerTake(input, pos, types).pos
  /\ UNCHANGED token

\* Tokenizer.next()
CursorNext ==
  /\ tpc # "scanning"
  /\ rounds < MaxCalls
  /\ CallEnds(tokenizerNext(input, pos), "next returned", "next threw")
  /\ token' = tokenizerNext(input, pos).token
  /\ start' = tokenizerNext(input, pos).pos

CursorCalls == CursorPeek \/ CursorTake \/ CursorNext

CursorSpec == CursorInit /\ [][CursorCalls]_vars

(***************************************************************************)
(* The end of a line.  The input is the text that follows a top-level      *)
(* construct, with the tokenizer standing directly after the construct.    *)
(***************************************************************************)
\* Bound: the length of the text that follows a construct.
MaxLine == 4

LineChars == {" ", "TAB", "#", "a", "=", "LF", "CR", "BS"}

LineTexts == Texts(LineChars, MaxLine)

\* this.tokenizer.take(...types), after a call whose outcome was t
takeAfter(inp, t, types) == IF t.threw # "none" THEN t ELSE tokenizerTake(inp, t.pos, types)

\* this.tokenizer.assert(...types), after a call whose outcome was t
assertAfter(inp, t, types) == IF t.threw # "none" THEN t ELSE tokenizerAssert(inp, t.pos, types)

\* Parser.parse, after expression() returned a node:
\* take('WHITESPACE'); take('COMMENT'); assert('NEWLINE', 'EOF')
endOfLine(inp, p) ==
  assertAfter(inp, takeAfter(inp, tokenizerTake(inp, p, {"WHITESPACE"}), {"COMMENT"}),
              {"NEWLINE", "EOF"})

RECURSIVE takeCommentsAndNewlines(_, _)
newlineTaken(inp, t) ==
  IF t.threw # "none" \/ ~t.taken THEN t ELSE takeCommentsAndNewlines(inp, t.pos)

newlineAsserted(inp, t) ==
  IF t.threw # "none" THEN t ELSE takeCommentsAndNewlines(inp, t.pos)

commentTaken(inp, t) ==
  IF t.threw # "none" THEN t
  ELSE IF t.taken THEN newlineAsserted(inp, tokenizerAssert(inp, t.pos, {"NEWLINE"}))
  ELSE newlineTaken(inp, tokenizerTake(inp, t.pos, {"NEWLINE"}))

\* Parser.takeCommentsAndNewlines()
takeCommentsAndNewlines(inp, p) ==
  commentTaken(inp, takeAfter(inp, tokenizerTake(inp, p, {"WHITESPACE"}), {"COMMENT"}))

\* new Parser(input), after expression() returned a node whose text ends
\* where the input begins.
LineInit ==
  /\ input \in LineTexts
  /\ pos = -1
  /\ pc = "endOfLine"
  /\ lines = {}
  /\ doc = <<>>
  /\ keystore = <<>>
  /\ rootTableNode = <<>>
  /\ tableNode = 0
  /\ elements = <<>>
  /\ acc = <<>>
  /\ idx = 0
  /\ tpc = "idle"
  /\ start = -1
  /\ delimiter = ""
  /\ isMultiline = FALSE
  /\ value = <<>>
  /\ token = <<>>
  /\ thrown = "none"
  /\ rounds = 0
  /\ ValueIdle
  /\ MergeIdle

\* The position a call left, and where the parser stands after it: in the
\* loop of scanComment for ever, at a throw, or at the step that follows.
LineStep(r, following_pc) ==
  /\ pos' = r.pos
  /\ pc' = CASE r.threw = "none" -> following_pc
             [] r.threw = "never returns" -> "scanComment"
             [] r.threw \notin {"none", "never returns"} -> "threw"
  /\ thrown' = IF r.threw = "never returns" THEN "none" ELSE r.threw
  /\ UNCHANGED <<lines, doc, keystore, rootTableNode, tableNode, elements, acc, idx,
                 input, tpc, start, delimiter, isMultiline, value, token, rounds,
                 valueVars, mergeVars>>

\* Parser.parse: the three calls after expression() returned a node.
AssertEndOfLine == pc = "endOfLine" /\ LineStep(endOfLine(input, pos), "expression")

\* Parser.expression: its call of takeCommentsAndNewlines.
TakeCommentsAndNewlines ==
  pc = "expression" /\ LineStep(takeCommentsAndNewlines(input, pos), "peek")

LineNext == AssertEndOfLine \/ TakeCommentsAndNewlines

LineSpec == LineInit /\ [][LineNext]_vars

(***************************************************************************)
(* merge on the heap.  The values of normalizer.ts are JavaScript objects  *)
(* held by reference: heap[r] is the object behind the reference r, a      *)
(* Value whose m and a hold references instead of Values.  The only write  *)
(* of merge is acc[key] = ...; concat, the spread and {} allocate.         *)
(***************************************************************************)
\* The nesting depth of the values handed to merge.
MaxNesting == 1

RECURSIVE SeqOf(_)
\* Object.entries(value): the keys of an object, in one fixed order.
SeqOf(S) ==
  IF S = {} THEN <<>>
  ELSE LET k == CHOOSE k \in S : TRUE IN <<k>> \o SeqOf(S \ {k})

\* A new object on the heap; its reference is the heap's new length.
Allocate(h, object) == Append(h, object)

\* acc[key] = r
Assign(h, object, key, r) ==
  [h EXCEPT ![object].m =
     [k \in DOMAIN h[object].m \cup {key} |-> IF k = key THEN r ELSE h[object].m[k]]]

RECURSIVE Store(_, _), StoreEntries(_, _, _, _), StoreElements(_, _, _)
\* The Value v built on the heap h: the heap and the reference of v.
Store(h, v) ==
  IF v.t = "map" THEN StoreEntries(h, v, SeqOf(DOMAIN v.m), <<>>)
  ELSE IF v.t = "arr" THEN StoreElements(h, v.a, <<>>)
  ELSE [heap |-> Allocate(h, v), ref |-> Len(h) + 1]

StoreEntries(h, v, keys, refs) ==
  IF keys = <<>>
    THEN [heap |-> Allocate(h, Map([k \in DOMAIN v.m |->
                                      refs[CHOOSE i \in 1..Len(refs) : refs[i][1] = k][2]])),
          ref |-> Len(h) + 1]
  ELSE StoreEntries(Store(h, v.m[Head(keys)]).heap, v, Tail(keys),
                    Append(refs, <<Head(keys), Store(h, v.m[Head(keys)]).ref>>))

StoreElements(h, q, refs) ==
  IF q = <<>> THEN [heap |-> Allocate(h, Arr(refs)), ref |-> Len(h) + 1]
  ELSE StoreElements(Store(h, Head(q)).heap, Tail(q), Append(refs, Store(h, Head(q)).ref))

RECURSIVE Load(_, _)
\* The Value behind the reference r.
Load(h, r) ==
  IF h[r].t = "map" THEN Map([k \in DOMAIN h[r].m |-> Load(h, h[r].m[k])])
  ELSE IF h[r].t = "arr" THEN Arr([i \in 1..Len(h[r].a) |-> Load(h, h[r].a[i])])
  ELSE h[r]

\* merge's outcomes: the heap it leaves, and the reference it returned.
MergeReturned(h, r) == [heap |-> h, ref |-> r, threw |-> FALSE]

MergeThrew(h) == [heap |-> h, ref |-> 0, threw |-> TRUE]

\* A plausible slip: reduce called without its initial value, so that the
\* first argument is the accumulator.
firstValue(h, values) == [heap |-> h, acc |-> Head(values), values |-> Tail(values)]

\* values.reduce(..., {}): the accumulator is a new object.
initialValue(h, values) ==
  [heap |-> Allocate(h, EmptyMap), acc |-> Len(h) + 1, values |-> values]

RECURSIVE mergeOnHeap(_, _), reduceValues(_, _, _), reduceEntries(_, _, _, _)
\* merge(...values)
mergeOnHeap(h, values) ==
  reduceValues(initialValue(h, values).heap,
               initialValue(h, values).acc,
               initialValue(h, values).values)

\* values.reduce((acc, value) => ..., acc)
reduceValues(h, object, values) ==
  IF values = <<>> THEN MergeReturned(h, object)
  ELSE IF reduceEntries(h, object, Head(values), SeqOf(DOMAIN h[Head(values)].m)).threw
    THEN MergeThrew(reduceEntries(h, object, Head(values),
                                  SeqOf(DOMAIN h[Head(values)].m)).heap)
  ELSE reduceValues(reduceEntries(h, object, Head(values),
                                  SeqOf(DOMAIN h[Head(values)].m)).heap,
                    object, Tail(values))

\* acc[key] = merge(prev, nextValue), or the error merge threw
assignMerged(h, object, key, merged) ==
  IF merged.threw THEN MergeThrew(merged.heap)
  ELSE MergeReturned(Assign(merged.heap, object, key, merged.ref), object)

\* acc[key] = [...prevValue.slice(0, -1), merge(prevValueLastElement, nextValue)]
assignLastMerged(h, object, key, prevValue, merged) ==
  IF merged.threw THEN MergeThrew(merged.heap)
  ELSE MergeReturned(Assign(Allocate(merged.heap,
                                     Arr(Append(Front(h[prevValue].a), merged.ref))),
                            object, key, Len(merged.heap) + 1),
                     object)

\* The body of the loop over Object.entries(value), for one entry.
reduceEntry(h, object, key, nextValue) ==
  IF key \notin DOMAIN h[object].m
    THEN MergeReturned(Assign(h, object, key, nextValue), object)
  ELSE IF isArray(h[h[object].m[key]]) /\ isArray(h[nextValue])
    THEN MergeReturned(Assign(Allocate(h, Arr(h[h[object].m[key]].a \o h[nextValue].a)),
                              object, key, Len(h) + 1),
                       object)
  ELSE IF isKeyValuePair(h[h[object].m[key]]) /\ isKeyValuePair(h[nextValue])
    THEN assignMerged(h, object, key, mergeOnHeap(h, <<h[object].m[key], nextValue>>))
  ELSE IF /\ isArray(h[h[object].m[key]])
          /\ Len(h[h[object].m[key]].a) > 0
          /\ isKeyValuePair(h[Last(h[h[object].m[key]].a)])
          /\ isKeyValuePair(h[nextValue])
    THEN assignLastMerged(h, object, key, h[object].m[key],
                          mergeOnHeap(h, <<Last(h[h[object].m[key]].a), nextValue>>))
  ELSE MergeThrew(h)

\* for (const [key, nextValue] of Object.entries(value)) ...
reduceEntries(h, object, v, keys) ==
  IF keys = <<>> THEN MergeReturned(h, object)
  ELSE IF reduceEntry(h, object, Head(keys), h[v].m[Head(keys)]).threw
    THEN reduceEntry(h, object, Head(keys), h[v].m[Head(keys)])
  ELSE reduceEntries(reduceEntry(h, object, Head(keys), h[v].m[Head(keys)]).heap,
                     object, v, Tail(keys))

\* The values without nesting: a scalar, an empty table, an empty array.
Atoms == {Scalar(1), EmptyMap, Arr(<<>>)}

RECURSIVE Nested(_)
\* The values nested at most n deep: a table of one key, an array of one
\* element, and an array of two elements whose first is not nested.
Nested(n) ==
  IF n = 0 THEN Atoms
  ELSE Atoms \cup {Map([k \in {a} |-> v]) : v \in Nested(n - 1)}
             \cup {Arr(<<v>>) : v \in Nested(n - 1)}
             \cup {Arr(<<v, w>>) : v \in Atoms, w \in Nested(n - 1)}

\* The objects handed to merge: no key, the key a, or the keys a and b.
MergeValues ==
  {EmptyMap} \cup {Map([k \in {a} |-> v]) : v \in Nested(MaxNesting)}
             \cup {Map([k \in {a, b} |-> IF k = a THEN v ELSE w]) : v \in Atoms, w \in Atoms}

\* Two objects on the heap, and merge about to be called on them.
MergeInit ==
  /\ given \in MergeValues \X MergeValues
  /\ heap = Store(Store(<<>>, given[1]).heap, given[2]).heap
  /\ arguments = <<Store(<<>>, given[1]).ref, Store(Store(<<>>, given[1]).heap, given[2]).ref>>
  /\ result = 0
  /\ mpc = "merge"

\* merge(...values)
Merge ==
  /\ mpc = "merge"
  /\ heap' = mergeOnHeap(heap, arguments).heap
  /\ result' = mergeOnHeap(heap, arguments).ref
  /\ mpc' = IF mergeOnHeap(heap, arguments).threw THEN "threw" ELSE "done"
  /\ UNCHANGED <<arguments, given, parserVars, tokenizerVars, valueVars>>

MergeNext == Merge

\* A call of merge, and nothing else running.
MergeSpecInit == MergeInit /\ ParserIdle /\ TokenizerIdle /\ ValueIdle

MergeSpec == MergeSpecInit /\ [][MergeNext]_vars

(***************************************************************************)
(* The literals as the format defines them.                                *)
(***************************************************************************)
LiteralRadix(t) ==
  IF StartsWith(t, <<"0", "x">>) THEN 16
  ELSE IF StartsWith(t, <<"0", "o">>) THEN 8
  ELSE IF StartsWith(t, <<"0", "b">>) THEN 2
  ELSE 10

LiteralSigned(t) == LiteralRadix(t) = 10 /\ Len(t) > 0 /\ t[1] \in {"+", "-"}

LiteralDigits(t) ==
  IF LiteralRadix(t) # 10 THEN Slice(t, 2) ELSE IF LiteralSigned(t) THEN Tail(t) ELSE t

\* Digits of the radix, with single underscores between two digits only.
WellFormedDigits(ds, radix) ==
  /\ Len(ds) > 0
  /\ \A i \in 1..Len(ds) :
       IF ds[i] = "_"
         THEN 1 < i /\ i < Len(ds) /\ IsDigitOf(ds[i - 1], radix) /\ IsDigitOf(ds[i + 1], radix)
       ELSE IsDigitOf(ds[i], radix)

\* An integer literal: a decimal one has no leading zero.
IsIntegerLiteral(t) ==
  /\ WellFormedDigits(LiteralDigits(t), LiteralRadix(t))
  /\ LiteralRadix(t) = 10 => (LiteralDigits(t) = <<"0">> \/ LiteralDigits(t)[1] # "0")

\* The integer a literal denotes.
Denoted(t) ==
  BigIntOf(LiteralSigned(t) /\ t[1] = "-",
           FromDigits(SelectSeq(LiteralDigits(t), NotUnderscore), LiteralRadix(t)))

\* -2^63 <= n <= 2^63 - 1
InInt64(n) ==
  IF n.neg THEN ~MagGreater(n.mag, <<9223, 37203, 68547, 75808>>)
  ELSE ~MagGreater(n.mag, <<9223, 37203, 68547, 75807>>)

\* C7: an integer literal in any radix decodes to exactly the integer it
\* denotes when that integer lies in [-2^63, 2^63 - 1], and raises a
\* structural error when it lies outside, on the positive and on the negative
\* side alike.
C7_IntegerInRangeOrError ==
  (vpc = "done" /\ IsIntegerLiteral(text)) =>
    IF InInt64(Denoted(text)) THEN valueNode = Node("INTEGER", Denoted(text))
    ELSE valueNode.type = "TOMLError"

\* A prefixed literal with an underscore directly after the radix prefix and
\* well-formed digits after it.
UnderscoreAfterPrefix(t) ==
  /\ LiteralRadix(t) # 10
  /\ Len(t) > 3
  /\ t[3] = "_"
  /\ WellFormedDigits(Slice(t, 3), LiteralRadix(t))

Binary1010_1010 == <<"0", "b", "1", "0", "1", "0", "_", "1", "0", "1", "0">>

\* C8, as stated: a prefixed literal with an underscore directly after the
\* radix prefix and digits after it decodes to the value of its digits (0x_FF
\* to 255), and 0b1010_1010 decodes to 170.
C8_UnderscoreAfterPrefixDecodes ==
  vpc = "done" =>
    /\ UnderscoreAfterPrefix(text) =>
         valueNode = Node("INTEGER",
                          BigIntOf(FALSE, FromDigits(SelectSeq(Slice(text, 3), NotUnderscore),
                                                     LiteralRadix(text))))
    /\ text = Binary1010_1010 => valueNode = Node("INTEGER", BigIntOf(FALSE, <<0, 0, 0, 170>>))

\* C8, amended: a prefixed literal with an underscore directly after the radix
\* prefix raises a structural error (0x_FF does), for an underscore stands
\* between two digits only; a prefixed literal whose underscores stand between
\* digits decodes to the value of its digits, and 0b1010_1010 decodes to 170.
C8_UnderscoreAfterPrefixRaises ==
  vpc = "done" =>
    /\ UnderscoreAfterPrefix(text) => valueNode.type = "TOMLError"
    /\ (LiteralRadix(text) # 10 /\ IsIntegerLiteral(text) /\ InInt64(Denoted(text))) =>
         valueNode = Node("INTEGER", Denoted(text))
    /\ text = Binary1010_1010 => valueNode = Node("INTEGER", BigIntOf(FALSE, <<0, 0, 0, 170>>))

\* 0x_FF was read and raised.
C8_Witness ==
  /\ vpc = "done"
  /\ text = <<"0", "x", "_", "F", "F">>
  /\ valueNode.type = "TOMLError"

\* YYYY-MM-DD
DateShape(s) ==
  /\ Len(s) = 10
  /\ \A i \in 1..10 : IF i \in {5, 8} THEN s[i] = "-" ELSE s[i] \in Digits

\* HH:MM:SS[.frac]
TimeShape(s) ==
  /\ Len(s) >= 8
  /\ \A i \in 1..8 : IF i \in {3, 6} THEN s[i] = ":" ELSE s[i] \in Digits
  /\ Len(s) > 8 => (Len(s) > 9 /\ s[9] = "." /\ \A i \in 10..Len(s) : s[i] \in Digits)

\* Z, +HH:MM or -HH:MM
OffsetShape(s) ==
  \/ s = <<"Z">>
  \/ /\ Len(s) = 6
     /\ s[1] \in {"+", "-"}
     /\ s[4] = ":"
     /\ \A i \in {2, 3, 5, 6} : s[i] \in Digits

\* The end of the time part of a date-time followed by an offset, if it has one.
OffsetStarts(t) ==
  {k \in 19..(Len(t) - 1) : TimeShape(SubSeq(t, 12, k)) /\ OffsetShape(Slice(t, k))}

DateAndSeparator(t) ==
  Len(t) > 11 /\ DateShape(SubSeq(t, 1, 10)) /\ t[11] \in {"T", "t", " "}

\* The kind the shape of a literal decides, "none" for any other text.
ShapeKind(t) ==
  IF DateShape(t) THEN "LOCAL_DATE"
  ELSE IF TimeShape(t) THEN "LOCAL_TIME"
  ELSE IF DateAndSeparator(t) /\ TimeShape(Slice(t, 11)) THEN "LOCAL_DATE_TIME"
  ELSE IF DateAndSeparator(t) /\ OffsetStarts(t) # {} THEN "OFFSET_DATE_TIME"
  ELSE "none"

TwoDigits(s, i) == DigitValue(s[i]) * 10 + DigitValue(s[i + 1])

\* The fields of a date lie in the calendar's ranges.
ValidDate(s) == TwoDigits(s, 6) \in 1..12 /\ TwoDigits(s, 9) \in 1..31

ValidTime(s) == TwoDigits(s, 1) <= 23 /\ TwoDigits(s, 4) <= 59 /\ TwoDigits(s, 7) <= 59

\* The fields of a literal of a date/time shape are valid.
ValidFields(t) ==
  CASE ShapeKind(t) = "LOCAL_DATE" -> ValidDate(t)
    [] ShapeKind(t) = "LOCAL_TIME" -> ValidTime(t)
    [] ShapeKind(t) \in {"LOCAL_DATE_TIME", "OFFSET_DATE_TIME"} ->
         ValidDate(t) /\ ValidTime(Slice(t, 11))

\* C9: the kind of a date/time value is decided by its shape alone: a literal
\* of the shape of a local date, a local date-time, an offset date-time or a
\* local time decodes to that kind, and to no other kind: when its fields are
\* out of range it raises a structural error or keeps its kind.
C9_KindByShape ==
  (vpc = "done" /\ ShapeKind(text) # "none") =>
    /\ valueNode.type \in {ShapeKind(text), "TOMLError"}
    /\ ValidFields(text) => valueNode.type = ShapeKind(text)

\* A local date-time written with the lower-case separator was read.
C9_Witness ==
  /\ vpc = "done"
  /\ text = <<"1", "9", "7", "9", "-", "0", "5", "-", "2", "7", "t",
              "0", "7", ":", "3", "2", ":", "0", "0", ".", "1", "2", "3">>
  /\ valueNode.type = "LOCAL_DATE_TIME"

\* The digits of the fractional seconds of a local time or local date-time.
FractionDigits(t) ==
  Slice(t, CHOOSE i \in 1..Len(t) : t[i] = ".")

\* floor(fraction * 1000): the first three digits of the fraction, zeros added.
Truncated(f) ==
  LET g == f \o <<"0", "0">>
  IN  DigitValue(g[1]) * 100 + DigitValue(g[2]) * 10 + DigitValue(g[3])

\* C10: for every local-time or local date-time literal with fractional
\* seconds, the millisecond field is the fraction truncated to three digits,
\* floor(fraction * 1000): .5 gives 500, .05 gives 50, .001999 gives 1; it is
\* never rounded and never exceeds 999.
C10_MillisecondTruncates ==
  (/\ vpc = "done"
   /\ valueNode.type \in {"LOCAL_TIME", "LOCAL_DATE_TIME"}
   /\ IncludesChar(text, ".", 0)) =>
    /\ valueNode.value.millisecond = Truncated(FractionDigits(text))
    /\ valueNode.value.millisecond <= 999

(***************************************************************************)
(* Inline tables: the scope of key collisions.                             *)
(***************************************************************************)
RECURSIVE InlineRepeats(_)
\* Some inline table inside the value, at any depth, names a path twice: two of
\* its own keys are equal or one is a dotted prefix of the other.
InlineRepeats(node) ==
  CASE node.type = "INLINE_TABLE" ->
         \/ \E j \in 1..Len(node.elements) : \E i \in 1..(j - 1) :
              \/ IsPrefix(node.elements[i].key, node.elements[j].key)
              \/ IsPrefix(node.elements[j].key, node.elements[i].key)
         \/ \E i \in 1..Len(node.elements) : InlineRepeats(node.elements[i].value[1])
    [] node.type = "ARRAY" -> \E i \in 1..Len(node.elements) : InlineRepeats(node.elements[i])
    [] OTHER -> FALSE

\* The enclosing document's ledger handed the pair's key with a scalar value.
ScalarPairAdded(ks, node) == addNode(ks, KeyValuePairNode(node.key, IntegerNode(1)))

\* The step reads one more key-value pair of the document.
ReadsPair == pc = "parse" /\ Len(doc') = Len(doc) + 1 /\ Last(doc').type = "KEY_VALUE_PAIR"

\* C11: key-collision state is scoped per inline table.  Reading a key-value
\* pair raises exactly when an inline table inside its value repeats a key of
\* its own, or when the pair's key collides in the enclosing document as it
\* would with a scalar value; and the enclosing ledger is left as the scalar
\* pair would leave it, with no key of the inline tables in it.
C11_InlineTableScoped ==
  [][ReadsPair =>
       /\ (pc' = "threw") <=>
            (InlineRepeats(Last(doc').value[1]) \/ ScalarPairAdded(keystore, Last(doc')).threw)
       /\ pc' # "threw" => keystore' = ScalarPairAdded(keystore, Last(doc')).ks]_vars

\* `a = 1` followed by `b = {a = {a = 1}, b = {a = 1}}` is decoded: the key a
\* is used in the document, in an inline table, and in two sibling inline
\* tables nested in it.
C11_Witness ==
  /\ pc = "done"
  /\ Len(doc) = 2
  /\ doc[1] = KeyValuePairNode(<<a>>, IntegerNode(1))
  /\ doc[2] = KeyValuePairNode(<<b>>,
                InlineTableNode(<<KeyValuePairNode(<<a>>, InlineTableNode(<<KeyValuePairNode(<<a>>, IntegerNode(1))>>)),
                                  KeyValuePairNode(<<b>>, InlineTableNode(<<KeyValuePairNode(<<a>>, IntegerNode(1))>>))>>))

(***************************************************************************)
(* Strings: the end of the input inside a string, and unicode escapes.     *)
(***************************************************************************)
\* The iterator has read the whole input: InputIterator.next returns EOF.
AtEndOfInput == pos + 1 = Len(input)

\* C12: when the input ends before the closing delimiter of a string, the
\* tokenizer raises a structural error: a round of scanString's loop that
\* starts at the end of the input throws TOMLError.
C12_UnterminatedStringRaises ==
  [][(tpc = "scanString" /\ AtEndOfInput) => (tpc' = "threw" /\ thrown' = "TOMLError")]_vars

\* The input is a basic string that starts with a \\u or \\U escape.
IsEscapeInput ==
  Len(input) >= 3 /\ input[1] = "\"" /\ input[2] = "\\" /\ input[3] \in {"u", "U"}

\* The number of digits the escape takes: 4 after u, 8 after U.
EscapeSize == IF input[3] = "u" THEN 4 ELSE 8

\* The hexadecimal digits: 0-9, a-f, A-F.
HexDigits ==
  Digits \cup {"a", "b", "c", "d", "e", "f"} \cup {"A", "B", "C", "D", "E", "F"}

\* The number the digits denote, any number above 0x10FFFF kept as 0x110000.
HexNumber(h) == parseIntFrom(h, 16, 1, 0, MaxCodePoint)

\* A Unicode scalar value: 0..0x10FFFF but the surrogates 0xD800..0xDFFF.
IsScalarValue(n) == 0 <= n /\ n <= 1114111 /\ ~(55296 <= n /\ n <= 57343)

\* The escape is followed by exactly 4 or 8 hexadecimal digits that denote a
\* scalar value.
ValidEscape ==
  /\ Len(input) >= 3 + EscapeSize
  /\ \A i \in 4..(3 + EscapeSize) : input[i] \in HexDigits
  /\ IsScalarValue(HexNumber(SubSeq(input, 4, 3 + EscapeSize)))

\* The scan of the string is over: it returned a token or threw.
ScanOver == pos >= 0 /\ tpc # "scanString"

\* C13: in a basic string a \\u or \\U escape is accepted only when it is
\* followed by exactly 4 or 8 hexadecimal digits that denote a Unicode scalar
\* value; every other escape of that form raises a structural error.
C13_UnicodeEscapeValidOrError ==
  (IsEscapeInput /\ ScanOver /\ ~ValidEscape) => (tpc = "threw" /\ thrown = "TOMLError")

(***************************************************************************)
(* Number literals.  Parser.value reads one value and leaves what follows  *)
(* it to its caller: parse() asserts the end of the line after a key/value *)
(* pair, array() a comma or the closing bracket, inlineTable() a comma or  *)
(* the closing brace.  A literal is accepted when value() returned a node  *)
(* and left nothing of the literal unread; what is left unread makes the   *)
(* caller throw TOMLError.                                                 *)
(***************************************************************************)
IsNode == valueNode.type \notin {"TOMLError", "RangeError", "SyntaxError", "TypeError"}

ReadToEnd == valueEnd + 1 >= Len(text)

Accepted == vpc = "done" /\ IsNode /\ ReadToEnd

StructuralError == vpc = "done" /\ (valueNode.type = "TOMLError" \/ (IsNode /\ ~ReadToEnd))

HasUnderscore(t) == \E i \in 1..Len(t) : t[i] = "_"

\* An underscore that does not stand between two digits of the radix of the literal.
MisplacedUnderscore(t) ==
  \E i \in 1..Len(t) :
    /\ t[i] = "_"
    /\ ~(/\ 1 < i
         /\ i < Len(t)
         /\ IsDigitOf(t[i - 1], LiteralRadix(t))
         /\ IsDigitOf(t[i + 1], LiteralRadix(t)))

\* The text of a float with its underscores removed, the exponent sign in lower case.
FloatDenoted(t) ==
  LET kept == SelectSeq(t, LAMBDA char : char # "_")
  IN  [i \in 1..Len(kept) |-> IF kept[i] = "E" THEN "e" ELSE kept[i]]

\* C14: an underscore in an integer or float literal of any radix is accepted
\* only strictly between two digits of that radix: a literal with a leading, a
\* trailing or a doubled underscore raises a structural error, and an accepted
\* literal denotes the value of its digits with the underscores removed.
C14_UnderscoresBetweenDigits ==
  (vpc = "done" /\ HasUnderscore(text)) =>
    /\ MisplacedUnderscore(text) => StructuralError
    /\ Accepted =>
         /\ valueNode.type \in {"INTEGER", "FLOAT"}
         /\ valueNode.type = "INTEGER" => valueNode.value = Denoted(text)
         /\ valueNode.type = "FLOAT" => valueNode.value.text = FloatDenoted(text)

C14_Witness ==
  /\ Accepted
  /\ text = <<"1", "_", "0", ".", "0", "_", "5", "e", "0", "_", "5">>
  /\ valueNode = FloatNode(<<"1", "0", ".", "0", "5", "e", "0", "5">>)

\* The characters of a decimal literal.
IsDecimalText(t) == \A i \in 1..Len(t) : t[i] \in Digits \cup {"+", "-", ".", "e", "E", "_"}

\* Digits with no leading zero unless the part is exactly 0.
IsIntegerPart(s) == WellFormedDigits(s, 10) /\ (s = <<"0">> \/ s[1] # "0")

\* .digits
IsFraction(s) == s[1] = "." /\ WellFormedDigits(Tail(s), 10)

\* e or E, an optional sign, digits
IsExponent(s) ==
  /\ s[1] \in {"e", "E"}
  /\ WellFormedDigits(IF Len(s) > 1 /\ s[2] \in {"+", "-"} THEN Slice(s, 2) ELSE Tail(s), 10)

\* Optional sign, integer part, then a fraction and/or an exponent.
IsFloatForm(t) ==
  LET unsigned == IF Len(t) > 0 /\ t[1] \in {"+", "-"} THEN Tail(t) ELSE t
  IN  \E i \in 1..Len(unsigned) : \E j \in i..Len(unsigned) :
        LET fraction == SubSeq(unsigned, i + 1, j)
            exponent == SubSeq(unsigned, j + 1, Len(unsigned))
        IN  /\ IsIntegerPart(SubSeq(unsigned, 1, i))
            /\ fraction = <<>> \/ IsFraction(fraction)
            /\ exponent = <<>> \/ IsExponent(exponent)
            /\ fraction # <<>> \/ exponent # <<>>

\* C15: a decimal literal is accepted as a float exactly when it has the form
\* optional sign, integer part (digits with no leading zero unless the part is
\* exactly 0), then a fraction .digits and/or an exponent e/E with optional
\* sign and digits: 0e0, 0.5, -0e5, 1e+3 and 1.5E-3 are accepted, and 1., .5,
\* 1.e5, 01.5 and 1e5.3 raise a structural error.
C15_FloatForm ==
  (vpc = "done" /\ IsDecimalText(text)) =>
    /\ (Accepted /\ valueNode.type = "FLOAT") <=> IsFloatForm(text)
    /\ text \in FloatsOfForm => Accepted
    /\ text \in FloatsOffForm => StructuralError

(***************************************************************************)
(* The Keystore of a document: the ledgers after the addNode calls that    *)
(* returned.                                                               *)
(***************************************************************************)
\* Every addNode call made so far has returned.
AllAdded == pc = "parse" /\ Len(doc) > 0

\* C16: after any sequence of successful Keystore.addNode calls, no path
\* identity is at the same time in the defined-key ledger and in the table
\* ledger.
C16_KeysAndTablesDisjoint ==
  AllAdded => \A i \in 1..Len(keystore.tables) : keystore.tables[i] \notin keystore.keys

(***************************************************************************)
(* The paths the constructs of a document name, as the format resolves     *)
(* them: a path is a sequence of components, and a prefix of a header that *)
(* names an array of tables stands for the latest element of that array.   *)
(* The component of element n is written #n.                               *)
(***************************************************************************)
Index(n) == <<"#">> \o NumberToString(n)

RECURSIVE ArrayPath(_, _)
RECURSIVE ResolveKey(_, _, _, _)
\* The array-of-tables headers before construct j that name the array at path q.
ElementsOf(d, j, q) ==
  Cardinality({i \in 1..(j - 1) : d[i].type = "ARRAY_TABLE" /\ ArrayPath(d, i) = q})

\* The path of the first n components of key k, written at construct j.
ResolveKey(d, j, k, n) ==
  IF n = 0 THEN <<>>
  ELSE LET q == Append(ResolveKey(d, j, k, n - 1), k[n])
       IN  IF n < Len(k) /\ ElementsOf(d, j, q) > 0
             THEN Append(q, Index(ElementsOf(d, j, q) - 1))
           ELSE q

\* The path of the array that array-of-tables header i names.
ArrayPath(d, i) == ResolveKey(d, i, d[i].key, Len(d[i].key))

\* The path of the table that header i opens: for an array of tables, its new element.
HeaderPath(d, i) ==
  IF d[i].type = "ARRAY_TABLE"
    THEN Append(ArrayPath(d, i), Index(ElementsOf(d, i, ArrayPath(d, i))))
  ELSE ResolveKey(d, i, d[i].key, Len(d[i].key))

SectionPath(d, j) == IF SectionOf(d, j) = 0 THEN <<>> ELSE HeaderPath(d, SectionOf(d, j))

\* The path construct j names.
Resolved(d, j) == IF IsHeader(d[j]) THEN HeaderPath(d, j) ELSE SectionPath(d, j) \o d[j].key

\* The identity of a path in the ledgers: a.[0].b for the path a #0 b.
Identity(path) ==
  Join([i \in 1..Len(path) |->
          IF path[i][1] = "#" THEN <<"[">> \o Tail(path[i]) \o <<"]">> ELSE path[i]], ".")

Pairs(d, j) == {i \in 1..(j - 1) : d[i].type = "KEY_VALUE_PAIR"}

\* A dotted key read before construct j has passed through path q.
MadeImplicit(d, j, q) ==
  \E i \in Pairs(d, j) :
    /\ IsProperPrefix(q, Resolved(d, i))
    /\ Len(q) > Len(SectionPath(d, i))

\* No construct read before j names path q, a path below it, or a path that
\* q passes through below the table of construct j.
NewLeaf(d, j, q) ==
  \A i \in 1..(j - 1) :
    /\ ~IsPrefix(q, Resolved(d, i))
    /\ ~(IsPrefix(Resolved(d, i), q) /\ Len(Resolved(d, i)) > Len(SectionPath(d, j)))

\* C17: once a dotted key has made path p an implicit table, a later key-value
\* pair whose full path is p raises a structural error, in either order
\* (a.b = 1 then a = 2, and a = 1 then a.b = 2), while a further pair that
\* passes through p to a new leaf (a.b = 1 then a.c = 2) is accepted.
C17_ImplicitTableNotAssigned ==
  [][ReadsPair =>
       LET j == Len(doc')
           p == Resolved(doc', j)
       IN  /\ MadeImplicit(doc', j, p) => pc' = "threw"
           /\ (\E i \in Pairs(doc', j) :
                 /\ IsProperPrefix(Resolved(doc', i), p)
                 /\ Len(Resolved(doc', i)) > Len(SectionPath(doc', j))) => pc' = "threw"
           /\ ((\E n \in 1..(Len(p) - 1) : MadeImplicit(doc', j, SubSeq(p, 1, n)))
                 /\ NewLeaf(doc', j, p)) =>
                (pc' = "parse" /\ Cardinality(keystore'.keys) = Cardinality(keystore.keys) + 1)]_vars

C17_Witness ==
  /\ pc = "parse"
  /\ doc = <<KeyValuePairNode(<<a, b>>, IntegerNode(1)), KeyValuePairNode(<<a, c>>, IntegerNode(1))>>
  /\ keystore.keys = {<<"a", ".", "b">>, <<"a", ".", "c">>}
  /\ keystore.implicitTables = {a}

ReadsTable == pc = "parse" /\ Len(doc') = Len(doc) + 1 /\ Last(doc').type = "TABLE"

\* A prefix of path q, q included, is the path of a key-value pair read before construct j.
PrefixIsKey(d, j, q) == \E i \in Pairs(d, j) : IsPrefix(Resolved(d, i), q)

\* Path q is that of a table or element a header before construct j opened, or
\* of an array of tables.
IsRegistered(d, j, q) ==
  \E i \in 1..(j - 1) :
    /\ IsHeader(d[i])
    /\ q = Resolved(d, i) \/ (d[i].type = "ARRAY_TABLE" /\ q = ArrayPath(d, i))

\* C18: Keystore.addNode of a table header raises a structural error when a
\* dotted prefix of its resolved path, the full path included, is a defined
\* key, or when the resolved path is already a registered table, element of an
\* array of tables or implicit table; otherwise the resolved path is appended
\* to the table ledger, so that [a.b] then [a] is accepted.
C18_TableHeaderCollisions ==
  [][ReadsTable =>
       LET j == Len(doc')
           p == Resolved(doc', j)
       IN  IF PrefixIsKey(doc', j, p) \/ IsRegistered(doc', j, p) \/ MadeImplicit(doc', j, p)
             THEN pc' = "threw"
           ELSE pc' = "parse" /\ keystore'.tables = Append(keystore.tables, Identity(p))]_vars

\* Path q lies in an element of an array of tables.
InElement(q) == \E n \in 1..Len(q) : q[n][1] = "#"

\* Path q is that of an array of tables opened before construct j.
IsArray(d, j, q) == \E i \in 1..(j - 1) : d[i].type = "ARRAY_TABLE" /\ ArrayPath(d, i) = q

\* The constructs before j that name path q.
Naming(d, j, q) == {i \in 1..(j - 1) : Resolved(d, i) = q}

\* C19: a table header whose path extends the header of an open array of
\* tables is registered under the latest element of that array, so that the
\* same sub-table header [a.b] is accepted once after each [[a]] and rejected
\* when repeated within one element; a table header equal to the header of the
\* array itself ([[a]] then [a]) raises a structural error.
C19_TableUnderLatestElement ==
  [][ReadsTable =>
       LET j == Len(doc')
           p == Resolved(doc', j)
       IN  /\ IsArray(doc', j, p) => pc' = "threw"
           /\ InElement(p) =>
                /\ Naming(doc', j, p) # {} => pc' = "threw"
                /\ (/\ Naming(doc', j, p) = {}
                    /\ ~IsArray(doc', j, p)
                    /\ ~PrefixIsKey(doc', j, p)
                    /\ ~MadeImplicit(doc', j, p)) =>
                     (pc' = "parse" /\ Last(keystore'.tables) = Identity(p))]_vars

ReadsArrayTable == pc = "parse" /\ Len(doc') = Len(doc) + 1 /\ Last(doc').type = "ARRAY_TABLE"

\* Path q is that of a key-value pair or of a plain table read before construct j.
IsKeyOrTable(d, j, q) ==
  \E i \in 1..(j - 1) : d[i].type \in {"KEY_VALUE_PAIR", "TABLE"} /\ Resolved(d, i) = q

\* C20: Keystore.addNode of an array-of-tables header raises a structural
\* error when the resolved path of the header (the path inside the current
\* element of its enclosing array of tables, if any) is already a defined key,
\* a plain table, or an implicit table created by a dotted key: [a] then
\* [[a]]; a.b = 1 then [[a]]; and [[a]], b.c = 1, [[a.b]].
C20_ArrayTableCollisions ==
  [][ReadsArrayTable =>
       LET j == Len(doc')
           q == ArrayPath(doc', j)
       IN  (IsKeyOrTable(doc', j, q) \/ MadeImplicit(doc', j, q)) => pc' = "threw"]_vars

\* C21: the k-th occurrence (counting from 0) of an array-of-tables header
\* within the same element of its closest enclosing array of tables is
\* registered with index k: the index grows by one per repetition, restarts at
\* 0 in each new element of the enclosing array, is not changed by headers of
\* other arrays in between, and the registered path embeds the current index
\* of the enclosing array.
C21_ArrayTableIndexed ==
  [][(ReadsArrayTable /\ pc' = "parse") =>
       /\ Last(keystore'.arrayTables) = Identity(HeaderPath(doc', Len(doc')))
       /\ Last(keystore'.tables) = Identity(HeaderPath(doc', Len(doc')))]_vars

\* C22: key and table identities registered under different elements of an
\* array of tables are distinct: the same key, dotted key or sub-table header
\* may be used once in every element without error, and a collision inside
\* one element is still detected.
C22_ElementsDoNotAlias ==
  [][((ReadsPair \/ ReadsTable) /\ InElement(Resolved(doc', Len(doc')))) =>
       LET j == Len(doc')
           p == Resolved(doc', j)
       IN  /\ Naming(doc', j, p) # {} => pc' = "threw"
           /\ (ReadsPair /\ NewLeaf(doc', j, p)) => pc' = "parse"
           /\ (/\ ReadsTable
               /\ ~PrefixIsKey(doc', j, p)
               /\ ~IsRegistered(doc', j, p)
               /\ ~MadeImplicit(doc', j, p)) => pc' = "parse"]_vars

(***************************************************************************)
(* merge, as the format's tables combine.                                  *)
(***************************************************************************)
RECURSIVE Combined(_, _), MergedKeyByKey(_, _)
\* The value of a key present on both sides, the cases tried in the order
\* mapping/mapping, array/array, array-tail/mapping, conflict.
Combined(l, r) ==
  IF l.t = "map" /\ r.t = "map" THEN MergedKeyByKey(l, r)
  ELSE IF l.t = "arr" /\ r.t = "arr" THEN Arr(l.a \o r.a)
  ELSE IF l.t = "arr" /\ Len(l.a) > 0 /\ l.a[Len(l.a)].t = "map" /\ r.t = "map"
    THEN IF MergedKeyByKey(l.a[Len(l.a)], r).t = "TOMLError" THEN ThrowTOMLError
         ELSE Arr([i \in 1..Len(l.a) |->
                     IF i = Len(l.a) THEN MergedKeyByKey(l.a[i], r) ELSE l.a[i]])
  ELSE ThrowTOMLError

\* Two mappings merged key by key.
MergedKeyByKey(l, r) ==
  LET f == [k \in DOMAIN l.m \cup DOMAIN r.m |->
              IF k \notin DOMAIN r.m THEN l.m[k]
              ELSE IF k \notin DOMAIN l.m THEN r.m[k]
              ELSE Combined(l.m[k], r.m[k])]
  IN  IF \E k \in DOMAIN f : f[k].t = "TOMLError" THEN ThrowTOMLError ELSE Map(f)

\* The heap when merge was called.
HeapGiven == Store(Store(<<>>, given[1]).heap, given[2]).heap

\* C23: merge of two objects raises exactly when some key present on both
\* sides pairs an assigned left value with a value it cannot combine with, and
\* otherwise returns the key-by-key combination (mappings merged recursively,
\* sequences concatenated left then right, the last mapping of a sequence
\* replaced by its merge with the incoming mapping), which is also what the
\* case order mapping/mapping, array/array, array-tail/mapping, conflict
\* gives; and every object that existed when merge was called is unchanged.
C23_MergeCases ==
  mpc \in {"done", "threw"} =>
    /\ (mpc = "threw") <=> (MergedKeyByKey(given[1], given[2]).t = "TOMLError")
    /\ mpc = "done" => Load(heap, result) = MergedKeyByKey(given[1], given[2])
    /\ \A r \in 1..Len(HeapGiven) : heap[r] = HeapGiven[r]
    /\ \A i \in 1..2 : Load(heap, arguments[i]) = given[i]

C23_Witness ==
  /\ mpc = "done"
  /\ given = <<Map([k \in {a} |-> Arr(<<Scalar(1), EmptyMap>>)]),
               Map([k \in {a} |-> Map([k2 \in {a} |-> Scalar(1)])])>>
  /\ Load(heap, result) =
       Map([k \in {a} |-> Arr(<<Scalar(1), Map([k2 \in {a} |-> Scalar(1)])>>)])

(***************************************************************************)
(* The value tree, read along a path.                                      *)
(***************************************************************************)
Undefined == [t |-> "undefined", s |-> 0, m |-> <<>>, a |-> <<>>]

RECURSIVE Lookup(_, _)
\* The value found in tree v along the path q: a name selects a key of a
\* mapping, #n the element n of a sequence.
Lookup(v, q) ==
  IF q = <<>> THEN v
  ELSE IF Len(Head(q)) > 0 /\ Head(q)[1] = "#"
    THEN IF v.t = "arr" /\ \E n \in 0..(Len(v.a) - 1) : Index(n) = Head(q)
           THEN Lookup(v.a[1 + CHOOSE n \in 0..(Len(v.a) - 1) : Index(n) = Head(q)], Tail(q))
         ELSE Undefined
  ELSE IF v.t = "map" /\ Head(q) \in DOMAIN v.m THEN Lookup(v.m[Head(q)], Tail(q))
  ELSE Undefined

\* C24: when a document has been decoded, the value of every key-value pair is
\* found in the value tree along the path of the most recent header before
\* the pair (through the element that was the array's newest when the pair
\* was read, for an array-of-tables header), or from the root when no header
\* precedes it; an accepted pair is pushed onto the elements of the parser's
\* current table; and the current table changes only in a step that reads a
\* header the Keystore accepts, to that header's node.
C24_PairsUnderLatestHeader ==
  [][/\ pc' = "done" =>
          \A j \in Pairs(doc', Len(doc') + 1) :
            Lookup(acc', Resolved(doc', j)) = normalize(doc'[j].value[1])
     /\ (ReadsPair /\ pc' = "parse") =>
          /\ SectionOf(doc', Len(doc')) = 0 =>
               (tableNode = 0 /\ Last(rootTableNode') = Last(doc'))
          /\ SectionOf(doc', Len(doc')) # 0 =>
               /\ tableNode # 0
               /\ rootTableNode[tableNode].key = doc'[SectionOf(doc', Len(doc'))].key
               /\ rootTableNode[tableNode].type = doc'[SectionOf(doc', Len(doc'))].type
               /\ Last(rootTableNode'[tableNode].elements) = Last(doc')
     /\ tableNode' # tableNode =>
          /\ ReadsTable \/ ReadsArrayTable
          /\ ~addNode(keystore, Last(doc')).threw
          /\ pc' = "parse"
          /\ rootTableNode'[tableNode'] = Last(doc')]_vars

C24_Witness ==
  /\ pc = "done"
  /\ doc = <<ArrayTableNode(<<a>>), KeyValuePairNode(<<b>>, IntegerNode(1)),
             ArrayTableNode(<<a>>), KeyValuePairNode(<<b>>, IntegerNode(2))>>
  /\ acc = Map([k \in {a} |-> Arr(<<Map([k2 \in {b} |-> Scalar(1)]),
                                     Map([k2 \in {b} |-> Scalar(2)])>>)])

(***************************************************************************)
(* The end of a line, as the format defines it.                            *)
(***************************************************************************)
RECURSIVE AfterWhitespace(_, _), AfterCommentText(_, _)
AfterWhitespace(t, i) ==
  IF i <= Len(t) /\ t[i] \in {" ", "TAB"} THEN AfterWhitespace(t, i + 1) ELSE i

AfterCommentText(t, i) ==
  IF i <= Len(t) /\ t[i] \notin ControlCharacters \ {"TAB"} THEN AfterCommentText(t, i + 1)
  ELSE i

AfterComment(t, i) == IF i <= Len(t) /\ t[i] = "#" THEN AfterCommentText(t, i + 1) ELSE i

AtLineEnd(t, i) ==
  \/ i = Len(t) + 1
  \/ t[i] = "LF"
  \/ t[i] = "CR" /\ i < Len(t) /\ t[i + 1] = "LF"

\* Optional whitespace and an optional comment, then a newline or the end of input.
WellEnded(t) == AtLineEnd(t, AfterComment(t, AfterWhitespace(t, 1)))

\* C25: after a top-level construct the parser goes on to the next expression
\* exactly when only optional whitespace and an optional comment stand before
\* the newline or the end of input, a comment that runs to the end of input
\* included; and raises a structural error for anything else on the line.
C25_OnlyCommentAfterConstruct ==
  [][pc = "endOfLine" =>
       IF WellEnded(input) THEN pc' = "expression"
       ELSE pc' = "threw" /\ thrown' = "TOMLError"]_vars

(***************************************************************************)
(* The cursor of the tokenizer.                                            *)
(***************************************************************************)
\* The step is a call of Tokenizer.take with the kinds listed.
Takes(types) ==
  /\ tpc' \in {"take true", "take false", "take threw"}
  /\ tokenizerTake(input, pos, types).pos = pos'
  /\ tokenizerTake(input, pos, types).threw = thrown'
  /\ tokenizerTake(input, pos, types).taken = (tpc' = "take true")

\* C26: a call of peek that returns or throws leaves the cursor where it was;
\* a call of take(kinds) returns true with the cursor directly after the next
\* token when that token's kind is listed, and false with the cursor where it
\* was when the kind is not listed; and a call of next after any number of
\* peeks returns the token, or throws the error, that next returns or throws
\* from the position before the peeks.
C26_PeekLeavesCursor ==
  [][/\ tpc' \in {"peek returned", "peek threw"} => pos' = pos
     /\ \A types \in KindLists :
          (Takes(types) /\ tokenizerNext(input, pos).threw = "none") =>
             IF tokenizerNext(input, pos).token.type \in types
               THEN tpc' = "take true" /\ pos' = tokenizerNext(input, pos).pos
             ELSE tpc' = "take false" /\ pos' = pos
     /\ tpc' \in {"next returned", "next threw"} =>
          /\ thrown' = tokenizerNext(input, start).threw
          /\ tpc' = "next returned" => token' = tokenizerNext(input, start).token]_vars

\* next, then a peek that throws at the control character: the cursor is
\* left after the first token.
C26_Witness ==
  /\ input = <<"a", "BS">>
  /\ rounds = 2
  /\ tpc = "peek threw"
  /\ thrown = "TOMLError"
  /\ token = EOFToken
  /\ pos = 0

(***************************************************************************)
(* Runs of delimiters in a multi-line string.                              *)
(***************************************************************************)
RECURSIVE RunLength(_, _, _)
\* The number of consecutive characters char of text t from index i on.
RunLength(t, i, char) ==
  IF i <= Len(t) /\ t[i] = char THEN 1 + RunLength(t, i + 1, char) ELSE 0

Least(m, n) == IF m < n THEN m ELSE n

\* A round of scanString begins at the first delimiter of a run.
ReadsRun ==
  /\ tpc = "scanString"
  /\ isMultiline
  /\ rounds' = rounds + 1
  /\ iteratorPeek(input, pos) = delimiter

\* C27: in a multi-line string a run of n delimiters is read in one round:
\* for n = 1 or 2 the n delimiters are appended to the value and the scan
\* continues after them; for n >= 3 the string is closed with n - 3 delimiters
\* appended, 2 at most, and the cursor is left on the last delimiter of the
\* closing run, the fifth of the run at most, so that a sixth is not read.
C27_DelimiterRuns ==
  [][ReadsRun =>
       IF RunLength(input, pos + 2, delimiter) <= 2
         THEN /\ tpc' = "scanString"
              /\ value' = value \o Repeat(delimiter, RunLength(input, pos + 2, delimiter))
              /\ pos' = pos + RunLength(input, pos + 2, delimiter)
       ELSE /\ tpc' = "ready"
            /\ token' = StringToken(value \o Repeat(delimiter,
                                      Least(RunLength(input, pos + 2, delimiter), 5) - 3), TRUE)
            /\ pos' = pos + Least(RunLength(input, pos + 2, delimiter), 5)]_vars

\* The multi-line literal string a followed by a run of six delimiters: the
\* string a'' is returned with the cursor on the fifth delimiter of the run.
C27_Witness ==
  /\ input = Repeat("'", 3) \o <<"a">> \o Repeat("'", 6)
  /\ tpc = "ready"
  /\ token = StringToken(<<"a", "'", "'">>, TRUE)
  /\ pos = 8

(***************************************************************************)
(* Control characters in strings and comments.                             *)
(***************************************************************************)
\* A raw control character other than tab and newline; a carriage return
\* that a newline follows is read as the newline.
IsRawControl(char) == char \in ControlCharacters \ {"TAB", "LF"}

ScanStringRounds == tpc = "scanString" /\ rounds' = rounds + 1

ScanCommentRounds == tpc = "scanComment" /\ rounds' = rounds + 1

\* C28: a round of scanString that reads a raw control character other than
\* tab, directly or after the backslash of a basic string, throws the
\* structural error, in each of the four string forms; a round that reads a
\* newline, a CR-LF pair included, appends one newline in a multi-line string
\* and throws the structural error in a single-line one; a tab is kept; a
\* comment ends before a control character other than tab, and the call of
\* the tokenizer that follows throws the structural error unless the character
\* is a newline, which is returned as one NEWLINE token.
C28_ControlCharactersRejected ==
  [][/\ (ScanStringRounds /\ IsRawControl(iteratorPeek(input, pos))) =>
          (tpc' = "threw" /\ thrown' = "TOMLError")
     /\ (/\ ScanStringRounds
         /\ delimiter = "\""
         /\ iteratorPeek(input, pos) = "\\"
         /\ IsRawControl(iteratorPeek(input, pos + 1))) =>
          (tpc' = "threw" /\ thrown' = "TOMLError")
     /\ (ScanStringRounds /\ iteratorPeek(input, pos) = "LF") =>
          IF isMultiline
            THEN /\ tpc' = "scanString"
                 /\ value' = Append(value, "LF")
                 /\ pos' = iteratorNext(input, pos).pos
          ELSE tpc' = "threw" /\ thrown' = "TOMLError"
     /\ (ScanStringRounds /\ iteratorPeek(input, pos) = "TAB") =>
          (tpc' = "scanString" /\ value' = Append(value, "TAB"))
     /\ (ScanCommentRounds /\ iteratorPeek(input, pos) = "TAB") => tpc' = "scanComment"
     /\ (/\ ScanCommentRounds
         /\ (IsRawControl(iteratorPeek(input, pos)) \/ iteratorPeek(input, pos) = "LF")) =>
          (tpc' = "ready" /\ pos' = pos /\ token'.type = "COMMENT")
     /\ (tpc = "ready" /\ IsRawControl(iteratorPeek(input, pos))) =>
          (tpc' = "threw" /\ thrown' = "TOMLError")
     /\ (tpc = "ready" /\ iteratorPeek(input, pos) = "LF") =>
          /\ tpc' = "ready"
          /\ token' = Token("NEWLINE", <<"LF">>)
          /\ pos' = iteratorNext(input, pos).pos]_vars

\* A multi-line basic string with U+007F after its first character.
C28_Witness ==
  /\ input = Repeat("\"", 3) \o <<"a", "DEL">>
  /\ tpc = "threw"
  /\ thrown = "TOMLError"
  /\ value = <<"a">>
  /\ pos = 4

(***************************************************************************)
(* Identities and component sequences.                                     *)
(***************************************************************************)
\* No construct read before j names the path q, no key-value pair read
\* before j has a path that q passes through, and no dotted key has passed
\* through q.
Unnamed(d, j, q) ==
  /\ ~MadeImplicit(d, j, q)
  /\ \A i \in 1..(j - 1) :
       /\ Resolved(d, i) # q
       /\ ~(d[i].type = "KEY_VALUE_PAIR" /\ IsPrefix(Resolved(d, i), q))

\* C29: identities are sequences of components.  A key-value pair is accepted
\* when no earlier construct names its path or a path below it and it passes
\* through no earlier pair or table of its own section, and a table header
\* is accepted when no earlier construct names its path, no dotted key has
\* made it a table and it passes through no earlier pair: so "a.b" = 1 and a.b = 2 are both accepted in one table,
\* and a key of the table "" does not collide with the same key of the root.
C29_IdentityByComponents ==
  [][/\ (ReadsPair /\ NewLeaf(doc', Len(doc'), Resolved(doc', Len(doc')))) => pc' = "parse"
     /\ (ReadsTable /\ Unnamed(doc', Len(doc'), Resolved(doc', Len(doc')))) => pc' = "parse"]_vars

(***************************************************************************)
(* Headers that share leading characters.                                  *)
(***************************************************************************)
\* Array-of-tables header j opens an array that no construct read before it
\* names, lies below or passes through as a key.
OpensNewArray(d, j) ==
  /\ ~PrefixIsKey(d, j, ArrayPath(d, j))
  /\ ~MadeImplicit(d, j, ArrayPath(d, j))
  /\ \A i \in 1..(j - 1) : ~IsPrefix(ArrayPath(d, j), Resolved(d, i))

\* C30: a header is put under an array of tables only when the array's header
\* is a prefix of it component by component.  A table header whose path no
\* earlier construct names is accepted and registered under that path, at the
\* root when no array's header is a component-wise prefix of it ([ab] after
\* [[a]]); and an array-of-tables header whose path no earlier construct
\* names or lies below is accepted ([[a]] after [abc]).
C30_PrefixByComponents ==
  [][/\ (/\ ReadsTable
         /\ ~PrefixIsKey(doc', Len(doc'), Resolved(doc', Len(doc')))
         /\ ~IsRegistered(doc', Len(doc'), Resolved(doc', Len(doc')))
         /\ ~MadeImplicit(doc', Len(doc'), Resolved(doc', Len(doc')))) =>
          /\ pc' = "parse"
          /\ Last(keystore'.tables) = Identity(Resolved(doc', Len(doc')))
     /\ (ReadsArrayTable /\ OpensNewArray(doc', Len(doc'))) => pc' = "parse"]_vars

(***************************************************************************)
(* Values assigned by key-value pairs.                                     *)
(***************************************************************************)
\* Header j has a path that extends the path of a key-value pair read before it.
ExtendsAssigned(d, j) ==
  /\ IsHeader(d[j])
  /\ PrefixIsKey(d, j, IF d[j].type = "ARRAY_TABLE" THEN ArrayPath(d, j) ELSE Resolved(d, j))

\* C31: no document is decoded in which a table header or an array-of-tables
\* header extends the path that an earlier key-value pair assigned a scalar,
\* an inline table or a static array to: decode raises a structural error on
\* a = {} then [[a.b]] and on a = [{}] then [[a.b]].
C31_AssignedNotExtended ==
  pc = "done" => \A j \in 1..Len(doc) : ~ExtendsAssigned(doc, j)

(***************************************************************************)
(* The instant of an offset date-time.                                     *)
(***************************************************************************)
\* The hour and the minute of an offset lie in their ranges; Z is always valid.
ValidOffset(s) ==
  s = <<"Z">> \/ (TwoDigits(s, 2) <= 23 /\ TwoDigits(s, 5) <= 59)

\* The text a Date was made from denotes an instant: every field of the date,
\* of the time and of the offset is in range.
ValidInstant(t) ==
  /\ ValidDate(t)
  /\ ValidTime(Slice(t, 11))
  /\ \A k \in OffsetStarts(t) : ValidOffset(Slice(t, k))

\* C32: every offset date-time that Parser.value returns is a valid absolute
\* instant: a literal of the shape of an offset date-time whose month, day,
\* hour, minute, second or offset is out of range raises a structural error
\* and yields no date.
C32_OffsetDateTimeIsInstant ==
  (vpc = "done" /\ ShapeKind(text) = "OFFSET_DATE_TIME") =>
    /\ valueNode.type \in {"OFFSET_DATE_TIME", "TOMLError"}
    /\ valueNode.type = "OFFSET_DATE_TIME" => ValidInstant(valueNode.value.text)
    /\ ~ValidInstant(text) => valueNode.type = "TOMLError"

(***************************************************************************)
(* normalize after Parser.parse.                                           *)
(***************************************************************************)
\* A step of normalize: the document is read to its end, Parser.parse has
\* returned the AST and no construct is read any more.
NormalizeStep == pc \in {"parse", "merge"} /\ doc' = doc

\* C33: the validation of the Keystore is sufficient for normalize: on every
\* AST that Parser.parse returns, every construct of which the Keystore has
\* accepted, no step of normalize raises a merge conflict.
C33_NormalizeCompletes ==
  [][NormalizeStep => pc' # "threw"]_vars

(***************************************************************************)
(* The ledgers after a call of Keystore.addNode that throws.               *)
(***************************************************************************)
\* Keystore.addNode was called on the construct read and threw.
AddNodeThrew == pc = "parse" /\ doc' # doc /\ pc' = "threw"

\* C34: a call of Keystore.addNode that raises a structural error leaves the
\* four ledgers (defined keys, tables, implicit tables, array tables) exactly
\* as they were before the call: the ledgers change only when the call succeeds.
C34_ThrowLeavesLedgers ==
  [][AddNodeThrew => keystore' = keystore]_vars
====
